---------------------------- MODULE Spec2Model ----------------------------
(***************************************************************************)
(* Delayed-field exchange and resource-group finalization of the block     *)
(* executor (aptos-move/block-executor): executor_utilities.rs and         *)
(* value_exchange.rs.                                                      *)
(*                                                                         *)
(* Serialized values ("bytes") are sequences of cells; a layout is a       *)
(* sequence of field layouts of the same length, each either "Plain" or    *)
(* the inner type of a delayed field ("U64", "U128", "String").  A cell at *)
(* a delayed position holds the number of an identifier while the value is *)
(* exchanged and the number of the resolved value once it is patched; the  *)
(* bytes themselves carry no mark telling the two apart.                   *)
(***************************************************************************)
EXTENDS Integers, Sequences, FiniteSets, TLC

(***************************************************************************)
(* Bounds of the model.                                                    *)
(***************************************************************************)
MaxGroups == 2
MaxMembers == 2

(***************************************************************************)
(* Option and Result values.                                               *)
(***************************************************************************)
None == << >>
Some(x) == << x >>
IsSome(o) == Len(o) = 1
Unwrap(o) == o[1]

Ok(x) == [tag |-> "Ok", val |-> x]
\* Error::FallbackToSequential(PanicOr::Or(ResourceGroupError(_)))
FallbackToSequential == [tag |-> "Err", val |-> "FallbackToSequential"]
\* PanicError::CodeInvariantError(_) returned as an Err value
PanicErr == [tag |-> "Err", val |-> "PanicError"]
\* a Rust panic (expect / unwrap / unreachable!): the call returns nothing
Panicked == [tag |-> "Panic", val |-> "panic"]
TransformationErr == [tag |-> "Err", val |-> "TransformationError"]

SeqMax(S) == CHOOSE m \in S : \A x \in S : x <= m

(***************************************************************************)
(* T::Value (TransactionWrite): a write op with its kind and its bytes.    *)
(***************************************************************************)
Modification(b) == [kind |-> "Modification", bytes |-> Some(b)]
Deletion == [kind |-> "Deletion", bytes |-> None]
\* a non-deletion op that carries no bytes
Bytesless == [kind |-> "Modification", bytes |-> None]

is_deletion(op) == op.kind = "Deletion"
bytes(op) == op.bytes
extract_raw_bytes(op) == op.bytes
set_bytes(op, b) == [op EXCEPT !.bytes = Some(b)]
convert_read_to_modification(op) ==
    IF is_deletion(op) THEN None ELSE Some([op EXCEPT !.kind = "Modification"])

(***************************************************************************)
(* ValueWithLayout<T::Value>                                               *)
(***************************************************************************)
RawFromStorage(v) == [variant |-> "RawFromStorage", value |-> v, layout |-> None]
Exchanged(v, l) == [variant |-> "Exchanged", value |-> v, layout |-> l]


(***************************************************************************)
(* Identifier generator: gen_id_start_value.  thread_rng().gen_range(low,  *)
(* high) draws from the half-open range low .. high - 1; the draw is the   *)
(* input rnd.  The product is at most 1999 * 1_000_000 < 2^31 < 2^32, so   *)
(* the u32 multiplication never wraps.                                     *)
(***************************************************************************)
gen_range(low, high) == low .. (high - 1)
\* mutant: the parallel range is not offset
IdOffset_same_range(sequential) == 0
IdOffset(sequential) == IF sequential THEN 0 ELSE 1000
RngDraws(sequential) == gen_range(1 + IdOffset(sequential), 1000 + IdOffset(sequential))
\* mutant: the draw starts at offset instead of 1 + offset
gen_id_start_value_from_zero(sequential, rnd) == (rnd - 1) * 1000000
\* mutant: start values a thousand apart instead of a million
gen_id_start_value_small_stride(sequential, rnd) == rnd * 1000
gen_id_start_value(sequential, rnd) == rnd * 1000000

(***************************************************************************)
(* Move values at a delayed-field position: [ty, n].  Conversions between  *)
(* Move values, identifiers and DelayedFieldValue (aptos_aggregator).      *)
(***************************************************************************)
DelayedLayouts == {"U64", "U128", "String"}
Kinds == {"Aggregator", "Snapshot", "DerivedString"}
MoveValue(ty, n) == [ty |-> ty, n |-> n]

KindFitsLayout(kind, layout) ==
    IF kind = "DerivedString" THEN layout = "String" ELSE layout \in {"U64", "U128"}
VariantOfKind(kind) ==
    IF kind = "Aggregator" THEN "Aggregator"
    ELSE IF kind = "Snapshot" THEN "Snapshot" ELSE "Derived"
VariantFitsLayout(variant, layout) ==
    IF variant = "Derived" THEN layout = "String" ELSE layout \in {"U64", "U128"}

\* DelayedFieldValue::try_from_move_value(layout, value, kind)
DelayedFieldValue_try_from_move_value(layout, value, kind) ==
    IF KindFitsLayout(kind, layout) /\ value.ty = layout
    THEN Ok([variant |-> VariantOfKind(kind), v |-> value.n])
    ELSE TransformationErr
\* DelayedFieldValue::try_into_move_value(layout)
DelayedFieldValue_try_into_move_value(dfv, layout) ==
    IF VariantFitsLayout(dfv.variant, layout)
    THEN Ok(MoveValue(layout, dfv.v))
    ELSE TransformationErr
\* T::Identifier::try_from_move_value(layout, value, &())
Identifier_try_from_move_value(layout, value) ==
    IF layout \in DelayedLayouts /\ value.ty = layout THEN Ok(value.n) ELSE TransformationErr
\* T::Identifier::try_into_move_value(layout)
Identifier_try_into_move_value(id, layout) ==
    IF layout \in DelayedLayouts THEN Ok(MoveValue(layout, id)) ELSE TransformationErr

(***************************************************************************)
(* ViewState.  A view is [mode, txn_idx, versioned_map, unsync_map, next]: *)
(* versioned_map is the shared multi-version store, keyed by <<identifier, *)
(* transaction index>>; unsync_map is the private map of a sequential      *)
(* attempt; next is the next identifier the attempt's generator hands out. *)
(***************************************************************************)
EmptyMap == [x \in {} |-> 0]

read_latest_committed_value(versioned_map, id, txn_idx, position) ==
    LET upper == IF position = "AfterCurrentTxn" THEN txn_idx ELSE txn_idx - 1
        cands == {t \in 0 .. upper : <<id, t>> \in DOMAIN versioned_map}
    IN IF cands = {} THEN None ELSE Some(versioned_map[<<id, SeqMax(cands)>>])

read_delayed_field(unsync_map, id) ==
    IF id \in DOMAIN unsync_map THEN Some(unsync_map[id]) ELSE None

\* ViewState::{Sync,Unsync}::set_delayed_field_value(id, base_value)
set_delayed_field_value(view, id, base_value) ==
    IF view.mode = "Sync"
    THEN [view EXCEPT !.versioned_map = (<<id, view.txn_idx>> :> base_value) @@ @]
    ELSE [view EXCEPT !.unsync_map = (id :> base_value) @@ @]

\* LatestView::generate_delayed_field_id: the identifier, and the view after
generate_delayed_field_id(view) == <<view.next, [view EXCEPT !.next = @ + 1]>>

(***************************************************************************)
(* TemporaryValueToIdentifierMapping.  Both directions return              *)
(* [tag, val, touched, view]: the TransformationResult, the engine's       *)
(* delayed_field_keys and the view after the call.                         *)
(***************************************************************************)
\* mutant: the value is converted before the identifier is generated
value_to_identifier_converts_first(view, touched, kind, layout, value) ==
    LET g == generate_delayed_field_id(view)
        id == g[1]
        base_value == DelayedFieldValue_try_from_move_value(layout, value, kind)
    IN IF base_value.tag # "Ok"
       THEN [tag |-> "Err", val |-> base_value.val, touched |-> touched, view |-> view]
       ELSE LET enc == Identifier_try_into_move_value(id, layout)
            IN [tag |-> enc.tag, val |-> enc.val,
                touched |-> touched \cup {id},
                view |-> set_delayed_field_value(g[2], id, base_value.val)]

\* mutant: the identifier is not inserted into delayed_field_keys
value_to_identifier_not_recorded(view, touched, kind, layout, value) ==
    LET g == generate_delayed_field_id(view)
        id == g[1]
        base_value == DelayedFieldValue_try_from_move_value(layout, value, kind)
    IN IF base_value.tag # "Ok"
       THEN [tag |-> "Err", val |-> base_value.val, touched |-> touched, view |-> g[2]]
       ELSE LET enc == Identifier_try_into_move_value(id, layout)
            IN [tag |-> enc.tag, val |-> enc.val,
                touched |-> touched,
                view |-> set_delayed_field_value(g[2], id, base_value.val)]

\* mutant: the value is stored under the identifier after the generated one
value_to_identifier_writes_next_id(view, touched, kind, layout, value) ==
    LET g == generate_delayed_field_id(view)
        id == g[1]
        base_value == DelayedFieldValue_try_from_move_value(layout, value, kind)
    IN IF base_value.tag # "Ok"
       THEN [tag |-> "Err", val |-> base_value.val, touched |-> touched, view |-> g[2]]
       ELSE LET enc == Identifier_try_into_move_value(id, layout)
            IN [tag |-> enc.tag, val |-> enc.val,
                touched |-> touched \cup {id},
                view |-> set_delayed_field_value(g[2], id + 1, base_value.val)]

value_to_identifier(view, touched, kind, layout, value) ==
    LET g == generate_delayed_field_id(view)
        id == g[1]
        base_value == DelayedFieldValue_try_from_move_value(layout, value, kind)
    IN IF base_value.tag # "Ok"
       THEN [tag |-> "Err", val |-> base_value.val, touched |-> touched, view |-> g[2]]
       ELSE LET enc == Identifier_try_into_move_value(id, layout)
            IN [tag |-> enc.tag, val |-> enc.val,
                touched |-> touched \cup {id},
                view |-> set_delayed_field_value(g[2], id, base_value.val)]

\* mutant: the value read is stored again under the caller's transaction
identifier_to_value_caches_read(view, touched, layout, identifier_value) ==
    LET idr == Identifier_try_from_move_value(layout, identifier_value)
    IN IF idr.tag # "Ok"
       THEN [tag |-> "Err", val |-> idr.val, touched |-> touched, view |-> view]
       ELSE LET id == idr.val
                rd == IF view.mode = "Sync"
                      THEN read_latest_committed_value(view.versioned_map, id,
                                                       view.txn_idx, "AfterCurrentTxn")
                      ELSE read_delayed_field(view.unsync_map, id)
            IN IF ~IsSome(rd)
               THEN [tag |-> "Panic", val |-> "panic",
                     touched |-> touched \cup {id}, view |-> view]
               ELSE LET mv == DelayedFieldValue_try_into_move_value(Unwrap(rd), layout)
                    IN [tag |-> mv.tag, val |-> mv.val,
                        touched |-> touched \cup {id},
                        view |-> set_delayed_field_value(view, id, Unwrap(rd))]

\* mutant: hands the identifier back instead of the value it resolves to
identifier_to_value_returns_identifier(view, touched, layout, identifier_value) ==
    LET idr == Identifier_try_from_move_value(layout, identifier_value)
    IN IF idr.tag # "Ok"
       THEN [tag |-> "Err", val |-> idr.val, touched |-> touched, view |-> view]
       ELSE LET id == idr.val
                rd == IF view.mode = "Sync"
                      THEN read_latest_committed_value(view.versioned_map, id,
                                                       view.txn_idx, "AfterCurrentTxn")
                      ELSE read_delayed_field(view.unsync_map, id)
            IN IF ~IsSome(rd)
               THEN [tag |-> "Panic", val |-> "panic",
                     touched |-> touched \cup {id}, view |-> view]
               ELSE [tag |-> "Ok", val |-> identifier_value,
                     touched |-> touched \cup {id}, view |-> view]

\* mutant: the Sync read does not see the transaction's own write
identifier_to_value_reads_before_current(view, touched, layout, identifier_value) ==
    LET idr == Identifier_try_from_move_value(layout, identifier_value)
    IN IF idr.tag # "Ok"
       THEN [tag |-> "Err", val |-> idr.val, touched |-> touched, view |-> view]
       ELSE LET id == idr.val
                rd == IF view.mode = "Sync"
                      THEN read_latest_committed_value(view.versioned_map, id,
                                                       view.txn_idx, "BeforeCurrentTxn")
                      ELSE read_delayed_field(view.unsync_map, id)
            IN IF ~IsSome(rd)
               THEN [tag |-> "Panic", val |-> "panic",
                     touched |-> touched \cup {id}, view |-> view]
               ELSE LET mv == DelayedFieldValue_try_into_move_value(Unwrap(rd), layout)
                    IN [tag |-> mv.tag, val |-> mv.val,
                        touched |-> touched \cup {id}, view |-> view]

\* mutant: an identifier without a value resolves to zero
identifier_to_value_defaults_when_unset(view, touched, layout, identifier_value) ==
    LET idr == Identifier_try_from_move_value(layout, identifier_value)
    IN IF idr.tag # "Ok"
       THEN [tag |-> "Err", val |-> idr.val, touched |-> touched, view |-> view]
       ELSE LET id == idr.val
                rd == IF view.mode = "Sync"
                      THEN read_latest_committed_value(view.versioned_map, id,
                                                       view.txn_idx, "AfterCurrentTxn")
                      ELSE read_delayed_field(view.unsync_map, id)
            IN IF ~IsSome(rd)
               THEN [tag |-> "Ok", val |-> MoveValue(layout, 0),
                     touched |-> touched \cup {id}, view |-> view]
               ELSE LET mv == DelayedFieldValue_try_into_move_value(Unwrap(rd), layout)
                    IN [tag |-> mv.tag, val |-> mv.val,
                        touched |-> touched \cup {id}, view |-> view]

\* mutant: the Sync read takes the latest value of any transaction
identifier_to_value_reads_any_txn(view, touched, layout, identifier_value) ==
    LET idr == Identifier_try_from_move_value(layout, identifier_value)
    IN IF idr.tag # "Ok"
       THEN [tag |-> "Err", val |-> idr.val, touched |-> touched, view |-> view]
       ELSE LET id == idr.val
                rd == IF view.mode = "Sync"
                      THEN read_latest_committed_value(view.versioned_map, id,
                                                       view.txn_idx + 1, "AfterCurrentTxn")
                      ELSE read_delayed_field(view.unsync_map, id)
            IN IF ~IsSome(rd)
               THEN [tag |-> "Panic", val |-> "panic",
                     touched |-> touched \cup {id}, view |-> view]
               ELSE LET mv == DelayedFieldValue_try_into_move_value(Unwrap(rd), layout)
                    IN [tag |-> mv.tag, val |-> mv.val,
                        touched |-> touched \cup {id}, view |-> view]

\* mutant: the decoded identifier is not inserted into delayed_field_keys
identifier_to_value_not_recorded(view, touched, layout, identifier_value) ==
    LET idr == Identifier_try_from_move_value(layout, identifier_value)
    IN IF idr.tag # "Ok"
       THEN [tag |-> "Err", val |-> idr.val, touched |-> touched, view |-> view]
       ELSE LET id == idr.val
                rd == IF view.mode = "Sync"
                      THEN read_latest_committed_value(view.versioned_map, id,
                                                       view.txn_idx, "AfterCurrentTxn")
                      ELSE read_delayed_field(view.unsync_map, id)
            IN IF ~IsSome(rd)
               THEN [tag |-> "Panic", val |-> "panic", touched |-> touched, view |-> view]
               ELSE LET mv == DelayedFieldValue_try_into_move_value(Unwrap(rd), layout)
                    IN [tag |-> mv.tag, val |-> mv.val, touched |-> touched, view |-> view]

identifier_to_value(view, touched, layout, identifier_value) ==
    LET idr == Identifier_try_from_move_value(layout, identifier_value)
    IN IF idr.tag # "Ok"
       THEN [tag |-> "Err", val |-> idr.val, touched |-> touched, view |-> view]
       ELSE LET id == idr.val
                rd == IF view.mode = "Sync"
                      THEN read_latest_committed_value(view.versioned_map, id,
                                                       view.txn_idx, "AfterCurrentTxn")
                      ELSE read_delayed_field(view.unsync_map, id)
            IN IF ~IsSome(rd)
               \* .expect("... value for ID must always exist"): a panic
               THEN [tag |-> "Panic", val |-> "panic",
                     touched |-> touched \cup {id}, view |-> view]
               ELSE LET mv == DelayedFieldValue_try_into_move_value(Unwrap(rd), layout)
                    IN [tag |-> mv.tag, val |-> mv.val,
                        touched |-> touched \cup {id}, view |-> view]

\* TemporaryValueToIdentifierMapping::into_inner
into_inner(delayed_field_keys) == delayed_field_keys

(***************************************************************************)
(* LatestView::replace_identifiers_with_values(bytes, layout): the value   *)
(* is deserialized under the layout (one cell per field) and serialized    *)
(* back with identifier_to_value applied at every delayed position, by a   *)
(* fresh TemporaryValueToIdentifierMapping.  Returns [tag, val, touched].  *)
(***************************************************************************)
RECURSIVE ReplaceFrom(_, _, _, _, _)
ReplaceFrom(view, bs, layout, i, acc) ==
    IF i > Len(bs) THEN acc
    ELSE IF layout[i] = "Plain"
    THEN ReplaceFrom(view, bs, layout, i + 1, [acc EXCEPT !.val = Append(@, bs[i])])
    ELSE LET r == identifier_to_value(view, acc.touched, layout[i],
                                      MoveValue(layout[i], bs[i]))
         IN IF r.tag # "Ok"
            THEN [tag |-> r.tag, val |-> r.val, touched |-> r.touched]
            ELSE ReplaceFrom(view, bs, layout, i + 1,
                             [tag |-> "Ok", val |-> Append(acc.val, r.val.n),
                              touched |-> r.touched])

replace_identifiers_with_values(view, bs, layout) ==
    IF Len(bs) # Len(layout)
    THEN [tag |-> "Err", val |-> "DeserializationError", touched |-> {}]
    ELSE ReplaceFrom(view, bs, layout, 1, [tag |-> "Ok", val |-> << >>, touched |-> {}])

(***************************************************************************)
(* TemporaryExtractIdentifiersMapping and extract_identifiers_from_value.  *)
(* deserialize_and_replace_values_with_ids calls value_to_identifier at    *)
(* every delayed position of the layout and gives None when a call fails   *)
(* or the bytes do not fit the layout.                                     *)
(***************************************************************************)
\* mutant: the decoded identifier is not inserted into delayed_field_keys
Extract_value_to_identifier_not_recorded(touched, kind, layout, value) ==
    LET idr == Identifier_try_from_move_value(layout, value)
    IN IF idr.tag # "Ok" THEN [tag |-> "Err", val |-> idr.val, touched |-> touched]
       ELSE LET enc == Identifier_try_into_move_value(idr.val, layout)
            IN [tag |-> enc.tag, val |-> enc.val, touched |-> touched]

Extract_value_to_identifier(touched, kind, layout, value) ==
    LET idr == Identifier_try_from_move_value(layout, value)
    IN IF idr.tag # "Ok" THEN [tag |-> "Err", val |-> idr.val, touched |-> touched]
       ELSE LET enc == Identifier_try_into_move_value(idr.val, layout)
            IN [tag |-> enc.tag, val |-> enc.val, touched |-> touched \cup {idr.val}]

Extract_identifier_to_value(touched, layout, identifier_value) ==
    LET idr == Identifier_try_from_move_value(layout, identifier_value)
    IN IF idr.tag # "Ok" THEN [tag |-> "Err", val |-> idr.val, touched |-> touched]
       ELSE LET enc == Identifier_try_into_move_value(idr.val, layout)
            IN [tag |-> enc.tag, val |-> enc.val, touched |-> touched \cup {idr.val}]

RECURSIVE ExtractFrom(_, _, _, _)
ExtractFrom(bs, layout, i, touched) ==
    IF i > Len(bs) THEN Ok(touched)
    ELSE IF layout[i] = "Plain" THEN ExtractFrom(bs, layout, i + 1, touched)
    ELSE LET r == Extract_value_to_identifier(touched, "Aggregator", layout[i],
                                              MoveValue(layout[i], bs[i]))
         IN IF r.tag # "Ok" THEN [tag |-> "Err", val |-> "anyhow"]
            ELSE ExtractFrom(bs, layout, i + 1, r.touched)

extract_identifiers_from_value(bs, layout) ==
    IF Len(bs) # Len(layout) THEN [tag |-> "Err", val |-> "anyhow"]
    ELSE ExtractFrom(bs, layout, 1, {})

\* TransactionWrite::as_state_value_metadata: a value with bytes has metadata
as_state_value_metadata(op) ==
    IF IsSome(op.bytes) THEN Some([metadata_of |-> op.kind]) ELSE None

\* mutant: a shared identifier is reported as an error
does_value_need_exchange_reports_error(value, layout, delayed_write_set_ids, key) ==
    IF IsSome(bytes(value))
    THEN LET identifiers_in_read_result ==
                 extract_identifiers_from_value(Unwrap(bytes(value)), layout)
         IN IF identifiers_in_read_result.tag = "Ok"
            THEN IF ~(delayed_write_set_ids \cap identifiers_in_read_result.val = {})
                 THEN Some(PanicErr)
                 ELSE None
            ELSE Some(PanicErr)
    ELSE None

\* mutant: the test of disjointness is inverted
does_value_need_exchange_when_disjoint(value, layout, delayed_write_set_ids, key) ==
    IF IsSome(bytes(value))
    THEN LET identifiers_in_read_result ==
                 extract_identifiers_from_value(Unwrap(bytes(value)), layout)
         IN IF identifiers_in_read_result.tag = "Ok"
            THEN IF delayed_write_set_ids \cap identifiers_in_read_result.val = {}
                 THEN IF ~IsSome(as_state_value_metadata(value))
                      THEN Some(Panicked)
                      ELSE Some(Ok(<<key, <<Unwrap(as_state_value_metadata(value)),
                                            layout>>>>))
                 ELSE None
            ELSE Some(PanicErr)
    ELSE None

\* Option<Result<(Key, (StateValueMetadata, layout)), PanicError>>; a panic of
\* .expect("Must contain metadata") is Some(Panicked)
does_value_need_exchange(value, layout, delayed_write_set_ids, key) ==
    IF IsSome(bytes(value))
    THEN LET identifiers_in_read_result ==
                 extract_identifiers_from_value(Unwrap(bytes(value)), layout)
         IN IF identifiers_in_read_result.tag = "Ok"
            THEN IF ~(delayed_write_set_ids \cap identifiers_in_read_result.val = {})
                 THEN IF ~IsSome(as_state_value_metadata(value))
                      THEN Some(Panicked)
                      ELSE Some(Ok(<<key, <<Unwrap(as_state_value_metadata(value)),
                                            layout>>>>))
                 ELSE None
            ELSE Some(PanicErr)
    ELSE None

(***************************************************************************)
(* Canonical BCS encoding of BTreeMap<Tag, Bytes>: the number of entries,  *)
(* then the entries in ascending key order, each as key, length, bytes.    *)
(* bcs::to_bytes fails only when a length exceeds the encoder's limit;     *)
(* too_long says whether it does.                                          *)
(***************************************************************************)
SetMin(S) == CHOOSE m \in S : \A x \in S : m <= x

RECURSIVE EncodeEntries(_, _)
EncodeEntries(btree, keys) ==
    IF keys = {} THEN << >>
    ELSE LET k == SetMin(keys)
         IN <<k, Len(btree[k])>> \o btree[k] \o EncodeEntries(btree, keys \ {k})

bcs_to_bytes(btree, too_long) ==
    IF too_long THEN [tag |-> "Err", val |-> "ExceededMaxLen"]
    ELSE Ok(<<Cardinality(DOMAIN btree)>> \o EncodeEntries(btree, DOMAIN btree))

\* bcs::from_bytes::<BTreeMap<Tag, Bytes>>: [tag, val, rest]; keys must ascend
RECURSIVE DecodeEntries(_, _, _, _)
DecodeEntries(bs, pos, n, acc) ==
    IF n = 0
    THEN IF pos = Len(bs) + 1 THEN Ok(acc) ELSE [tag |-> "Err", val |-> "RemainingInput"]
    ELSE IF pos + 1 > Len(bs) \/ pos + 1 + bs[pos + 1] > Len(bs)
    THEN [tag |-> "Err", val |-> "Eof"]
    ELSE IF \E k \in DOMAIN acc : k >= bs[pos]
    THEN [tag |-> "Err", val |-> "NonCanonicalMap"]
    ELSE DecodeEntries(bs, pos + 2 + bs[pos + 1], n - 1,
                       (bs[pos] :> SubSeq(bs, pos + 2, pos + 1 + bs[pos + 1])) @@ acc)

bcs_from_bytes(bs) ==
    IF Len(bs) = 0 THEN [tag |-> "Err", val |-> "Eof"]
    ELSE DecodeEntries(bs, 2, bs[1], EmptyMap)

\* mutant: the first pair of a tag is kept
CollectBTree_keeps_first(pairs) ==
    [t \in {pairs[i][1] : i \in DOMAIN pairs} |->
        pairs[SetMin({i \in DOMAIN pairs : pairs[i][1] = t})][2]]

\* .collect::<BTreeMap<_, _>>() of (tag, bytes) pairs: a later pair of the same
\* tag replaces an earlier one
CollectBTree(pairs) ==
    [t \in {pairs[i][1] : i \in DOMAIN pairs} |->
        pairs[SeqMax({i \in DOMAIN pairs : pairs[i][1] = t})][2]]

(***************************************************************************)
(* executor_utilities.rs                                                   *)
(***************************************************************************)
\* mutant: the reads are fetched as soon as the last metadata op is handed out
groups_to_finalize_next_reads_early(it) ==
    IF it.a # << >>
    THEN [it |-> IF Len(it.a) = 1
                 THEN [it EXCEPT !.a = Tail(@), !.invoked = TRUE, !.b = it.outputs_reads]
                 ELSE [it EXCEPT !.a = Tail(@)],
          item |-> Some(<<Head(it.a), FALSE>>)]
    ELSE LET b == IF it.invoked THEN it.b ELSE it.outputs_reads
         IN IF b # << >>
            THEN [it |-> [it EXCEPT !.invoked = TRUE, !.b = Tail(b)],
                  item |-> Some(<<Head(b), TRUE>>)]
            ELSE [it |-> [it EXCEPT !.invoked = TRUE, !.b = b], item |-> None]

\* Iterator::next of the chain groups_to_finalize! builds: the items of
\* group_write_ops flagged false; once they are exhausted the flat_map closure
\* runs, on the first next() that needs it, and its items follow flagged true.
\* Returns the iterator after the call and the item.
groups_to_finalize_next(it) ==
    IF it.a # << >>
    THEN [it |-> [it EXCEPT !.a = Tail(@)], item |-> Some(<<Head(it.a), FALSE>>)]
    ELSE LET b == IF it.invoked THEN it.b ELSE it.outputs_reads
         IN IF b # << >>
            THEN [it |-> [it EXCEPT !.invoked = TRUE, !.b = Tail(b)],
                  item |-> Some(<<Head(b), TRUE>>)]
            ELSE [it |-> [it EXCEPT !.invoked = TRUE, !.b = b], item |-> None]

\* mutant: members that are deletions are dropped from the returned list
map_finalized_group_drops_deletions(group_key, finalized_group, metadata_op, is_read_needing_exchange) ==
    LET metadata_is_deletion == is_deletion(metadata_op)
        kept(m) == ~is_deletion(m[2].value)
    IN IF finalized_group.tag = "Ok"
       THEN IF is_read_needing_exchange /\ metadata_is_deletion
            THEN FallbackToSequential
            ELSE IF (finalized_group.val = << >>) # metadata_is_deletion
            THEN FallbackToSequential
            ELSE Ok(<<group_key, metadata_op, SelectSeq(finalized_group.val, kept)>>)
       ELSE FallbackToSequential

\* mutant: the emptiness check is missing
map_finalized_group_no_emptiness_check(group_key, finalized_group, metadata_op, is_read_needing_exchange) ==
    IF finalized_group.tag = "Ok"
    THEN IF is_read_needing_exchange /\ is_deletion(metadata_op)
         THEN FallbackToSequential
         ELSE Ok(<<group_key, metadata_op, finalized_group.val>>)
    ELSE FallbackToSequential

\* mutant: the check of a read needing exchange under a deletion is missing
map_finalized_group_no_read_check(group_key, finalized_group, metadata_op, is_read_needing_exchange) ==
    IF finalized_group.tag = "Ok"
    THEN IF (finalized_group.val = << >>) # is_deletion(metadata_op)
         THEN FallbackToSequential
         ELSE Ok(<<group_key, metadata_op, finalized_group.val>>)
    ELSE FallbackToSequential

map_finalized_group(group_key, finalized_group, metadata_op, is_read_needing_exchange) ==
    LET metadata_is_deletion == is_deletion(metadata_op)
    IN IF finalized_group.tag = "Ok"
       THEN IF is_read_needing_exchange /\ metadata_is_deletion
            THEN FallbackToSequential
            ELSE IF (finalized_group.val = << >>) # metadata_is_deletion
            THEN FallbackToSequential
            ELSE Ok(<<group_key, metadata_op, finalized_group.val>>)
       ELSE FallbackToSequential

\* mutant: the group blob is not set on the metadata op
SerializeGroup_without_set_bytes(group, too_long) ==
    LET members == group[3]
    IN IF \E j \in DOMAIN members : ~IsSome(extract_raw_bytes(members[j][2]))
       THEN Panicked
       ELSE LET btree == CollectBTree([j \in DOMAIN members |->
                              <<members[j][1], Unwrap(extract_raw_bytes(members[j][2]))>>])
                r == bcs_to_bytes(btree, too_long)
            IN IF r.tag # "Ok" THEN FallbackToSequential
               ELSE Ok(<<group[1], group[2]>>)

\* mutant: the pairs are encoded as a Vec, in the order they arrive
SerializeGroup_in_arrival_order(group, too_long) ==
    LET members == group[3]
        RECURSIVE EncodePairs(_)
        EncodePairs(j) ==
            IF j > Len(members) THEN << >>
            ELSE LET b == Unwrap(extract_raw_bytes(members[j][2]))
                 IN <<members[j][1], Len(b)>> \o b \o EncodePairs(j + 1)
    IN IF \E j \in DOMAIN members : ~IsSome(extract_raw_bytes(members[j][2]))
       THEN Panicked
       ELSE IF too_long THEN FallbackToSequential
       ELSE Ok(<<group[1], set_bytes(group[2], <<Len(members)>> \o EncodePairs(1))>>)

\* the closure of serialize_groups applied to one group
SerializeGroup(group, too_long) ==
    LET members == group[3]
    IN IF \E j \in DOMAIN members : ~IsSome(extract_raw_bytes(members[j][2]))
       \* .expect("Deletions should already be applied")
       THEN Panicked
       ELSE LET btree == CollectBTree([j \in DOMAIN members |->
                              <<members[j][1], Unwrap(extract_raw_bytes(members[j][2]))>>])
                r == bcs_to_bytes(btree, too_long)
            IN IF r.tag # "Ok" THEN FallbackToSequential
               ELSE Ok(<<group[1], set_bytes(group[2], r.val)>>)

\* .map(..).collect::<Result<Vec<_>, _>>(): stops at the first Err
RECURSIVE SerializeFrom(_, _, _, _)
SerializeFrom(finalized_groups, too_long, i, acc) ==
    IF i > Len(finalized_groups) THEN Ok(acc)
    ELSE LET r == SerializeGroup(finalized_groups[i], too_long[i])
         IN IF r.tag # "Ok" THEN r
            ELSE SerializeFrom(finalized_groups, too_long, i + 1, Append(acc, r.val))

serialize_groups(finalized_groups, too_long) ==
    SerializeFrom(finalized_groups, too_long, 1, << >>)

\* mutant: a value that cannot be exchanged is reported as a resource group error
replace_ids_with_values_falls_back(value, layout, latest_view) ==
    LET m == convert_read_to_modification(value)
    IN IF IsSome(m)
       THEN IF IsSome(bytes(Unwrap(m)))
            THEN LET r == replace_identifiers_with_values(latest_view,
                                                          Unwrap(bytes(Unwrap(m))), layout)
                 IN IF r.tag # "Ok" THEN Panicked
                    ELSE Ok(set_bytes(Unwrap(m), r.val))
            ELSE FallbackToSequential
       ELSE FallbackToSequential

\* mutant: the patched bytes are not set on the value
replace_ids_with_values_keeps_bytes(value, layout, latest_view) ==
    LET m == convert_read_to_modification(value)
    IN IF IsSome(m)
       THEN IF IsSome(bytes(Unwrap(m)))
            THEN LET r == replace_identifiers_with_values(latest_view,
                                                          Unwrap(bytes(Unwrap(m))), layout)
                 IN IF r.tag # "Ok" THEN Panicked
                    ELSE Ok(Unwrap(m))
            ELSE PanicErr
       ELSE PanicErr

replace_ids_with_values(value, layout, latest_view) ==
    LET m == convert_read_to_modification(value)
    IN IF IsSome(m)
       THEN IF IsSome(bytes(Unwrap(m)))
            THEN LET r == replace_identifiers_with_values(latest_view,
                                                          Unwrap(bytes(Unwrap(m))), layout)
                 \* .unwrap()
                 IN IF r.tag # "Ok" THEN Panicked
                    ELSE Ok(set_bytes(Unwrap(m), r.val))
            ELSE PanicErr
       ELSE PanicErr

\* mutant: an exchanged member with a layout is passed through unresolved
PatchMember_keeps_exchanged(value_with_layout, latest_view) ==
    Ok(value_with_layout.value)

\* the match of map_id_to_values_in_group_writes on one ValueWithLayout
PatchMember(value_with_layout, latest_view) ==
    IF value_with_layout.variant = "RawFromStorage" THEN Ok(value_with_layout.value)
    ELSE IF ~IsSome(value_with_layout.layout) THEN Ok(value_with_layout.value)
    ELSE replace_ids_with_values(value_with_layout.value,
                                 Unwrap(value_with_layout.layout), latest_view)

\* mutant: a member that fails to resolve is left out and the loop goes on
RECURSIVE PatchMembersFrom_skips_failing(_, _, _, _)
PatchMembersFrom_skips_failing(resource_vec, latest_view, j, acc) ==
    IF j > Len(resource_vec) THEN Ok(acc)
    ELSE LET r == PatchMember(resource_vec[j][2], latest_view)
         IN IF r.tag = "Panic" THEN r
            ELSE IF r.tag # "Ok"
            THEN PatchMembersFrom_skips_failing(resource_vec, latest_view, j + 1, acc)
            ELSE PatchMembersFrom_skips_failing(resource_vec, latest_view, j + 1,
                                                Append(acc, <<resource_vec[j][1], r.val>>))

RECURSIVE PatchMembersFrom(_, _, _, _)
PatchMembersFrom(resource_vec, latest_view, j, acc) ==
    IF j > Len(resource_vec) THEN Ok(acc)
    ELSE LET r == PatchMember(resource_vec[j][2], latest_view)
         IN IF r.tag # "Ok" THEN r
            ELSE PatchMembersFrom(resource_vec, latest_view, j + 1,
                                  Append(acc, <<resource_vec[j][1], r.val>>))

RECURSIVE PatchGroupsFrom(_, _, _, _)
PatchGroupsFrom(finalized_groups, latest_view, i, acc) ==
    IF i > Len(finalized_groups) THEN Ok(acc)
    ELSE LET g == finalized_groups[i]
             r == PatchMembersFrom(g[3], latest_view, 1, << >>)
         IN IF r.tag # "Ok" THEN r
            ELSE PatchGroupsFrom(finalized_groups, latest_view, i + 1,
                                 Append(acc, <<g[1], g[2], r.val>>))

map_id_to_values_in_group_writes(finalized_groups, latest_view) ==
    PatchGroupsFrom(finalized_groups, latest_view, 1, << >>)

\* mutant: a key that is in the map already keeps its entry
RECURSIVE PatchWriteSetFrom_keeps_first(_, _, _, _)
PatchWriteSetFrom_keeps_first(resource_write_set, latest_view, i, acc) ==
    IF i > Len(resource_write_set) THEN Ok(acc)
    ELSE LET key == resource_write_set[i][1]
             write_op == resource_write_set[i][2]
             layout == resource_write_set[i][3]
         IN IF IsSome(layout) /\ ~is_deletion(write_op)
            THEN IF ~IsSome(bytes(write_op))
                 THEN Panicked
                 ELSE LET r == replace_identifiers_with_values(latest_view,
                                   Unwrap(bytes(write_op)), Unwrap(layout))
                      IN IF r.tag # "Ok" THEN Panicked
                         ELSE PatchWriteSetFrom_keeps_first(resource_write_set,
                                  latest_view, i + 1,
                                  acc @@ (key :> set_bytes(write_op, r.val)))
            ELSE PatchWriteSetFrom_keeps_first(resource_write_set, latest_view, i + 1, acc)

\* mutant: deletions and layout-less writes are copied to the result
RECURSIVE PatchWriteSetFrom_passes_through(_, _, _, _)
PatchWriteSetFrom_passes_through(resource_write_set, latest_view, i, acc) ==
    IF i > Len(resource_write_set) THEN Ok(acc)
    ELSE LET key == resource_write_set[i][1]
             write_op == resource_write_set[i][2]
             layout == resource_write_set[i][3]
         IN IF IsSome(layout) /\ ~is_deletion(write_op)
            THEN IF ~IsSome(bytes(write_op))
                 THEN Panicked
                 ELSE LET r == replace_identifiers_with_values(latest_view,
                                   Unwrap(bytes(write_op)), Unwrap(layout))
                      IN IF r.tag # "Ok" THEN Panicked
                         ELSE PatchWriteSetFrom_passes_through(resource_write_set,
                                  latest_view, i + 1,
                                  (key :> set_bytes(write_op, r.val)) @@ acc)
            ELSE PatchWriteSetFrom_passes_through(resource_write_set, latest_view, i + 1,
                                                  (key :> write_op) @@ acc)

\* mutant: a write with a layout and no bytes is skipped
RECURSIVE PatchWriteSetFrom_skips_bytesless(_, _, _, _)
PatchWriteSetFrom_skips_bytesless(resource_write_set, latest_view, i, acc) ==
    IF i > Len(resource_write_set) THEN Ok(acc)
    ELSE LET key == resource_write_set[i][1]
             write_op == resource_write_set[i][2]
             layout == resource_write_set[i][3]
         IN IF IsSome(layout) /\ ~is_deletion(write_op) /\ IsSome(bytes(write_op))
            THEN LET r == replace_identifiers_with_values(latest_view,
                              Unwrap(bytes(write_op)), Unwrap(layout))
                 IN IF r.tag # "Ok" THEN Panicked
                    ELSE PatchWriteSetFrom_skips_bytesless(resource_write_set,
                             latest_view, i + 1,
                             (key :> set_bytes(write_op, r.val)) @@ acc)
            ELSE PatchWriteSetFrom_skips_bytesless(resource_write_set, latest_view,
                                                   i + 1, acc)

\* the loop body of map_id_to_values_in_write_set; acc is the BTreeMap so far
RECURSIVE PatchWriteSetFrom(_, _, _, _)
PatchWriteSetFrom(resource_write_set, latest_view, i, acc) ==
    IF i > Len(resource_write_set) THEN Ok(acc)
    ELSE LET key == resource_write_set[i][1]
             write_op == resource_write_set[i][2]
             layout == resource_write_set[i][3]
         IN IF IsSome(layout) /\ ~is_deletion(write_op)
            THEN IF ~IsSome(bytes(write_op))
                 \* None => unreachable!()
                 THEN Panicked
                 ELSE LET r == replace_identifiers_with_values(latest_view,
                                   Unwrap(bytes(write_op)), Unwrap(layout))
                      \* Err(_) => unreachable!(..)
                      IN IF r.tag # "Ok" THEN Panicked
                         ELSE PatchWriteSetFrom(resource_write_set, latest_view, i + 1,
                                  (key :> set_bytes(write_op, r.val)) @@ acc)
            ELSE PatchWriteSetFrom(resource_write_set, latest_view, i + 1, acc)

map_id_to_values_in_write_set(resource_write_set, latest_view) ==
    PatchWriteSetFrom(resource_write_set, latest_view, 1, EmptyMap)

(***************************************************************************)
(* State.                                                                  *)
(***************************************************************************)
VARIABLES
    latest_view,          \* the LatestView the patcher resolves identifiers through
    gpc,                  \* group pipeline: collect, patched, serialized, or how it ended
    mfg_call,             \* the last map_finalized_group call: arguments and result
    finalized_groups,     \* the groups map_finalized_group returned Ok for, in order
    patched_groups,       \* the result of map_id_to_values_in_group_writes
    ser_call,             \* the serialize_groups call: too_long and result
    wpc,                  \* write-set patch: start, returned, panicked
    resource_write_set,   \* the input of map_id_to_values_in_write_set
    patched_resource_write_set,  \* the BTreeMap it returned
    versioned,            \* shared multi-version delayed-field store: <<id, txn>> -> value
    att,                  \* per attempt: mode, txn_idx, generator, private map, status
    engine,               \* the followed engine: its attempt and its delayed_field_keys
    lifted,               \* per attempt: the successful value_to_identifier calls
    calls,                \* the calls of the followed engine, where they are recorded
    seq_start,            \* gen_id_start_value(true) of the sequential attempt, 0: none yet
    par_start,            \* gen_id_start_value(false) of the parallel attempt, 0: none yet
    seq_count,            \* identifiers the sequential attempt generated from seq_start
    par_count,            \* identifiers the parallel attempt generated from par_start
    need_call,            \* a does_value_need_exchange call: arguments and results
    gtf                   \* the iterator of groups_to_finalize and what its consumer saw

groupVars == <<gpc, mfg_call, finalized_groups, patched_groups, ser_call>>
writeVars == <<wpc, resource_write_set, patched_resource_write_set>>
exchVars == <<versioned, att, engine, lifted, calls>>
idVars == <<seq_start, par_start, seq_count, par_count>>
needVars == <<need_call>>
iterVars == <<gtf>>
vars == <<latest_view, groupVars, writeVars, exchVars, idVars, needVars, iterVars>>

(***************************************************************************)
(* Inputs.  Identifiers of a view are the first ones of its attempt: the   *)
(* start value of its mode, and the one after.                             *)
(***************************************************************************)
Tags == {1, 2}
GroupKeys == {1, 2}
MetadataOps == {Modification(<< >>), Deletion}

BaseId(mode) ==
    IF mode = "Unsync" THEN gen_id_start_value(TRUE, 1) ELSE gen_id_start_value(FALSE, 1001)

Agg(n) == [variant |-> "Aggregator", v |-> n]
Derived(n) == [variant |-> "Derived", v |-> n]

ViewOf(mode, txn_idx, versioned_map, unsync_map) ==
    [mode |-> mode, txn_idx |-> txn_idx, versioned_map |-> versioned_map,
     unsync_map |-> unsync_map, next |-> BaseId(mode) + 2]

\* views of the group pipeline: the first identifier resolves, the second does
\* not (never set, or set to a value that does not fit a U64 position)
GroupViews ==
    LET u == BaseId("Unsync")
        p == BaseId("Sync")
    IN { ViewOf("Unsync", 0, EmptyMap, (u :> Agg(5))),
         ViewOf("Sync", 1, (<<p, 0>> :> Agg(5)) @@ (<<p, 1>> :> Agg(9))
                           @@ (<<p + 1, 1>> :> Derived(3)), EmptyMap) }

\* the ValueWithLayout values a group member may carry, for identifiers b, b + 1
MemberValues(b) ==
    { RawFromStorage(Modification(<<7>>)),
      RawFromStorage(Deletion),
      Exchanged(Modification(<<8>>), None),
      Exchanged(Modification(<<b, 7>>), Some(<<"U64", "Plain">>)),
      Exchanged(Modification(<<b + 1>>), Some(<<"U64">>)),
      Exchanged(Deletion, Some(<<"U64">>)),
      Exchanged(Bytesless, Some(<<"U64">>)) }

SeqsUpTo(S, n) == UNION {[1 .. k -> S] : k \in 0 .. n}

TotalMembers(groups) ==
    LET RECURSIVE Sum(_)
        Sum(i) == IF i = 0 THEN 0 ELSE Len(groups[i][3]) + Sum(i - 1)
    IN Sum(Len(groups))

NoMfgCall ==
    [called |-> FALSE, group_key |-> 0, finalized_group |-> Ok(<< >>),
     metadata_op |-> Deletion, is_read_needing_exchange |-> FALSE,
     result |-> FallbackToSequential]
NoSerCall == [called |-> FALSE, too_long |-> << >>, result |-> FallbackToSequential]

IdleWrite ==
    /\ wpc = "idle"
    /\ resource_write_set = << >>
    /\ patched_resource_write_set = EmptyMap

NoNeedCall ==
    [pc |-> "idle", value |-> Deletion, layout |-> << >>,
     delayed_write_set_ids |-> {}, key |-> 0,
     identifiers_in_read |-> [tag |-> "Err", val |-> "anyhow"], result |-> None]
IdleNeed == need_call = NoNeedCall

\* no groups_to_finalize iterator
NoIterator ==
    [pc |-> "idle", outputs_ops |-> << >>, outputs_reads |-> << >>,
     a |-> << >>, invoked |-> FALSE, b |-> << >>, next_calls |-> 0, yielded |-> << >>]
IdleIter == gtf = NoIterator

IdleIds ==
    /\ seq_start = 0
    /\ par_start = 0
    /\ seq_count = 0
    /\ par_count = 0

\* no call of the followed engine recorded; tracking says whether the
\* specification records them
NoCalls(tracking) ==
    [tracking |-> tracking, generated |-> {}, decoded |-> {}, clean |-> TRUE]

IdleExchange ==
    /\ versioned = EmptyMap
    /\ att = EmptyMap
    /\ engine = [owner |-> 0, touched |-> {}]
    /\ calls = NoCalls(FALSE)
    /\ lifted = EmptyMap

IdleGroup ==
    /\ gpc = "idle"
    /\ mfg_call = NoMfgCall
    /\ finalized_groups = << >>
    /\ patched_groups = << >>
    /\ ser_call = NoSerCall

InitGroup ==
    /\ gpc = "collect"
    /\ mfg_call = NoMfgCall
    /\ finalized_groups = << >>
    /\ patched_groups = << >>
    /\ ser_call = NoSerCall

(***************************************************************************)
(* Group pipeline: groups_to_finalize feeds map_finalized_group one group  *)
(* at a time (the first Err ends the attempt with that error); the Ok      *)
(* results go through map_id_to_values_in_group_writes and then            *)
(* serialize_groups.                                                       *)
(***************************************************************************)
FinalizeGroup ==
    /\ gpc = "collect"
    /\ Len(finalized_groups) < MaxGroups
    /\ \E group_key \in GroupKeys, metadata_op \in MetadataOps,
          is_read_needing_exchange \in BOOLEAN,
          finalized_group \in
              {[tag |-> "Err", val |-> "anyhow"]} \cup
              {Ok(l) : l \in SeqsUpTo(Tags \X MemberValues(BaseId(latest_view.mode)),
                                      MaxMembers - TotalMembers(finalized_groups))} :
          LET r == map_finalized_group(group_key, finalized_group, metadata_op,
                                       is_read_needing_exchange)
          IN /\ mfg_call' = [called |-> TRUE, group_key |-> group_key,
                             finalized_group |-> finalized_group,
                             metadata_op |-> metadata_op,
                             is_read_needing_exchange |-> is_read_needing_exchange,
                             result |-> r]
             /\ IF r.tag = "Ok"
                THEN /\ finalized_groups' = Append(finalized_groups, r.val)
                     /\ gpc' = gpc
                ELSE /\ finalized_groups' = finalized_groups
                     /\ gpc' = "fallback"
    /\ UNCHANGED <<latest_view, patched_groups, ser_call, writeVars, exchVars, idVars, needVars, iterVars>>

PatchGroups ==
    /\ gpc = "collect"
    /\ LET r == map_id_to_values_in_group_writes(finalized_groups, latest_view)
       IN IF r.tag = "Ok"
          THEN /\ patched_groups' = r.val
               /\ gpc' = "patched"
          ELSE /\ patched_groups' = patched_groups
               /\ gpc' = IF r.tag = "Panic" THEN "patch_panicked" ELSE "patch_fatal"
    /\ UNCHANGED <<latest_view, mfg_call, finalized_groups, ser_call, writeVars, exchVars, idVars, needVars, iterVars>>

SerializeGroups ==
    /\ gpc = "patched"
    /\ \E too_long \in [1 .. Len(patched_groups) -> BOOLEAN] :
          LET r == serialize_groups(patched_groups, too_long)
          IN /\ ser_call' = [called |-> TRUE, too_long |-> too_long, result |-> r]
             /\ gpc' = IF r.tag = "Ok" THEN "serialized"
                       ELSE IF r.tag = "Panic" THEN "serialize_panicked"
                       ELSE "fallback"
    /\ UNCHANGED <<latest_view, mfg_call, finalized_groups, patched_groups, writeVars, exchVars, idVars, needVars, iterVars>>

InitG == latest_view \in GroupViews /\ InitGroup /\ IdleWrite /\ IdleExchange /\ IdleIds /\ IdleNeed /\ IdleIter
NextG == FinalizeGroup \/ PatchGroups \/ SerializeGroups
SpecG == InitG /\ [][NextG]_vars

(***************************************************************************)
(* groups_to_finalize!: the macro fetches resource_group_metadata_ops when *)
(* it is expanded and returns a lazy iterator; the consumer calls next()   *)
(* until it gets None or stops before (an error of map_finalized_group     *)
(* ends the collection).  outputs_reads is what                            *)
(* group_reads_needing_delayed_field_exchange returns when it is invoked.  *)
(***************************************************************************)
MaxOps == 2
GroupItems == GroupKeys \X MetadataOps

InitIter ==
    gtf \in {[NoIterator EXCEPT !.pc = "iterating", !.outputs_ops = ops,
                                !.outputs_reads = reads, !.a = ops] :
                ops \in SeqsUpTo(GroupItems, MaxOps),
                reads \in SeqsUpTo(GroupItems, MaxOps)}

IterNext ==
    /\ gtf.pc = "iterating"
    /\ LET r == groups_to_finalize_next(gtf)
       IN gtf' = [r.it EXCEPT !.next_calls = @ + 1,
                              !.yielded = IF IsSome(r.item)
                                          THEN Append(@, Unwrap(r.item)) ELSE @,
                              !.pc = IF IsSome(r.item) THEN "iterating" ELSE "exhausted"]
    /\ UNCHANGED <<latest_view, groupVars, writeVars, exchVars, idVars, needVars>>

\* the consumer drops the iterator before it is exhausted
ConsumerStops ==
    /\ gtf.pc = "iterating"
    /\ gtf' = [gtf EXCEPT !.pc = "stopped"]
    /\ UNCHANGED <<latest_view, groupVars, writeVars, exchVars, idVars, needVars>>

InitZ ==
    /\ InitIter
    /\ latest_view = EmptyMap /\ IdleGroup /\ IdleWrite /\ IdleExchange /\ IdleIds
    /\ IdleNeed
NextZ == IterNext \/ ConsumerStops
SpecZ == InitZ /\ [][NextZ]_vars

(***************************************************************************)
(* Write-set patch: one call of map_id_to_values_in_write_set on a         *)
(* resource write set of (key, write_op, layout) entries.                  *)
(***************************************************************************)
MaxWrites == 2
ResourceKeys == {1, 2}

PatchViews ==
    LET u == BaseId("Unsync")
        p == BaseId("Sync")
    IN { ViewOf("Unsync", 0, EmptyMap, (u :> Agg(5)) @@ ((u + 1) :> Agg(6))),
         \* the value of the first identifier is the number of the second
         ViewOf("Unsync", 0, EmptyMap, (u :> Agg(u + 1))),
         \* the second identifier is set by a later transaction only
         ViewOf("Sync", 1, (<<p, 0>> :> Agg(5)) @@ (<<p, 1>> :> Agg(9))
                           @@ (<<p + 1, 2>> :> Agg(6)), EmptyMap),
         ViewOf("Sync", 1, (<<p, 0>> :> Agg(5)) @@ (<<p + 1, 1>> :> Derived(3)),
                EmptyMap) }

Creation(b) == [kind |-> "Creation", bytes |-> Some(b)]

\* (write_op, layout) pairs of a resource write, for identifiers b, b + 1
WriteValues(b) ==
    { <<Modification(<<b, 7>>), Some(<<"U64", "Plain">>)>>,
      <<Creation(<<7, b + 1>>), Some(<<"Plain", "U64">>)>>,
      <<Modification(<<b>>), None>>,
      <<Modification(<<7>>), None>>,
      <<Deletion, Some(<<"U64">>)>>,
      <<Deletion, None>>,
      <<Bytesless, Some(<<"U64">>)>>,
      <<Modification(<<b, 7>>), Some(<<"U64">>)>> }

WriteEntries(b) == {<<k, w[1], w[2]>> : k \in ResourceKeys, w \in WriteValues(b)}

InitWrite ==
    /\ wpc = "start"
    /\ resource_write_set \in SeqsUpTo(WriteEntries(BaseId(latest_view.mode)), MaxWrites)
    /\ patched_resource_write_set = EmptyMap

PatchWriteSet ==
    /\ wpc = "start"
    /\ LET r == map_id_to_values_in_write_set(resource_write_set, latest_view)
       IN IF r.tag = "Ok"
          THEN /\ patched_resource_write_set' = r.val
               /\ wpc' = "returned"
          ELSE /\ patched_resource_write_set' = patched_resource_write_set
               /\ wpc' = "panicked"
    /\ UNCHANGED <<latest_view, resource_write_set, groupVars, exchVars, idVars, needVars, iterVars>>

InitW == latest_view \in PatchViews /\ InitWrite /\ IdleGroup /\ IdleExchange /\ IdleIds /\ IdleNeed /\ IdleIter
NextW == PatchWriteSet
SpecW == InitW /\ [][NextW]_vars

(***************************************************************************)
(* Exchange engine.  Attempts 1 and 2 are parallel attempts (Sync) of      *)
(* transactions 0 and 1 and share the versioned store; attempt 3 is a      *)
(* sequential attempt (Unsync) with a private map.  Every attempt has its  *)
(* own generator, started at gen_id_start_value of its mode, so two        *)
(* parallel attempts may hand out the same identifier.  An engine          *)
(* (TemporaryValueToIdentifierMapping) lives for one (de)serialization:    *)
(* engine holds the delayed_field_keys of the one engine that is followed  *)
(* across calls; the other attempts call through engines that are created  *)
(* for the call and dropped after it.                                      *)
(***************************************************************************)
MaxIds == 2
Attempts == {1, 2, 3}
ModeOf(a) == IF a = 3 THEN "Unsync" ELSE "Sync"
TxnOf(a) == IF a = 2 THEN 1 ELSE 0
ExchangeLayouts == {"U64", "String"}
ExchangeValues == {MoveValue("U64", 5), MoveValue("U64", 6), MoveValue("String", 5)}

\* the first draws of the generator's range for the attempt's mode
StartValues(a) ==
    LET sequential == ModeOf(a) = "Unsync"
        low == 1 + IdOffset(sequential)
    IN {gen_id_start_value(sequential, rnd) :
            rnd \in RngDraws(sequential) \cap (IF a = 2 THEN {low, low + 1} ELSE {low})}

ExchangeViewOf(a) ==
    [mode |-> att[a].mode, txn_idx |-> att[a].txn_idx, versioned_map |-> versioned,
     unsync_map |-> att[a].unsync_map, next |-> att[a].next]

Generated(a) == att[a].start .. (att[a].next - 1)
TotalGenerated ==
    LET RECURSIVE Sum(_)
        Sum(S) == IF S = {} THEN 0
                  ELSE LET x == CHOOSE y \in S : TRUE
                       IN (att[x].next - att[x].start) + Sum(S \ {x})
    IN Sum(Attempts)

NoEngine == [owner |-> 0, touched |-> {}]
TouchedOf(a) == IF engine.owner = a THEN engine.touched ELSE {}

\* the attempts at their start; those not in running have finished already
StartOfAttempts(running) ==
    {f \in [Attempts -> [mode : {"Sync", "Unsync"}, txn_idx : {0, 1},
                         start : UNION {StartValues(a) : a \in Attempts},
                         next : UNION {StartValues(a) : a \in Attempts},
                         unsync_map : {EmptyMap}, status : {"running", "finished"}]] :
        \A a \in Attempts :
            /\ f[a].mode = ModeOf(a)
            /\ f[a].txn_idx = TxnOf(a)
            /\ f[a].start \in StartValues(a)
            /\ f[a].next = f[a].start
            /\ f[a].status = IF a \in running THEN "running" ELSE "finished"}

InitExchange ==
    /\ versioned = EmptyMap
    /\ calls = NoCalls(FALSE)
    /\ att \in StartOfAttempts(Attempts)
    /\ engine = NoEngine
    /\ lifted = [a \in Attempts |-> {}]

\* what a call of attempt a leaves behind: the view's stores and generator, and
\* the engine's touched-set; a panic ends the attempt.  id is the identifier
\* of the call: generated by value_to_identifier (op = "generated") or handed
\* to identifier_to_value (op = "decoded").  calls records the identifiers of
\* the successful calls of the followed engine, by direction, and whether all
\* its calls were successful (clean).
AfterCall(a, r, op, id) ==
    /\ versioned' = IF att[a].mode = "Sync" THEN r.view.versioned_map ELSE versioned
    /\ att' = [att EXCEPT ![a].next = r.view.next,
                          ![a].unsync_map = r.view.unsync_map,
                          ![a].status = IF r.tag = "Panic" THEN "panicked" ELSE @]
    /\ engine' = IF engine.owner = a THEN [engine EXCEPT !.touched = r.touched]
                 ELSE engine
    /\ calls' = IF calls.tracking /\ engine.owner = a
                THEN [calls EXCEPT ![op] = IF r.tag = "Ok" THEN @ \cup {id} ELSE @,
                                   !.clean = @ /\ r.tag = "Ok"]
                ELSE calls

\* TemporaryValueToIdentifierMapping::new: a fresh engine, nothing touched
NewEngine(a) ==
    /\ att[a].status = "running"
    /\ engine # [owner |-> a, touched |-> {}]
    /\ engine' = [owner |-> a, touched |-> {}]
    /\ calls' = NoCalls(calls.tracking)
    /\ UNCHANGED <<versioned, att, lifted, latest_view, groupVars, writeVars, idVars, needVars, iterVars>>

ValueToIdentifier(a) ==
    /\ att[a].status = "running"
    /\ TotalGenerated < MaxIds
    /\ \E kind \in Kinds, layout \in ExchangeLayouts, value \in ExchangeValues :
          LET r == value_to_identifier(ExchangeViewOf(a), TouchedOf(a),
                                       kind, layout, value)
          IN /\ AfterCall(a, r, "generated", att[a].next)
             /\ lifted' = IF r.tag = "Ok"
                          THEN [lifted EXCEPT ![a] = @ \cup
                                   {[idval |-> r.val, kind |-> kind,
                                     layout |-> layout, value |-> value]}]
                          ELSE lifted
    /\ UNCHANGED <<latest_view, groupVars, writeVars, idVars, needVars, iterVars>>

\* identifiers some attempt has generated, and the next one of attempt a
KnownIds(a) == {att[a].next} \cup UNION {Generated(b) : b \in Attempts}

\* the (layout, identifier_value) pairs handed to identifier_to_value: the
\* encodings of the known identifiers, and one value that does not decode
\* under the layout
ResolveInputs(a) ==
    {<<layout, MoveValue(layout, id)>> : layout \in ExchangeLayouts, id \in KnownIds(a)}
        \cup {<<"U64", MoveValue("String", att[a].next)>>}

IdentifierToValue(a) ==
    /\ att[a].status = "running"
    /\ \E in \in ResolveInputs(a) :
          LET r == identifier_to_value(ExchangeViewOf(a), TouchedOf(a), in[1], in[2])
          IN AfterCall(a, r, "decoded", in[2].n)
    /\ UNCHANGED <<lifted, latest_view, groupVars, writeVars, idVars, needVars, iterVars>>

InitX == InitExchange /\ latest_view = EmptyMap /\ IdleGroup /\ IdleWrite /\ IdleIds /\ IdleNeed /\ IdleIter
NextX == \E a \in Attempts : NewEngine(a) \/ ValueToIdentifier(a) \/ IdentifierToValue(a)
SpecX == InitX /\ [][NextX]_vars

\* the same engine with the calls of the followed engine recorded; the second
\* parallel attempt has finished before
TrackedAttempts == {1, 3}
InitT ==
    /\ versioned = EmptyMap
    /\ calls = NoCalls(TRUE)
    /\ att \in StartOfAttempts(TrackedAttempts)
    /\ engine = NoEngine
    /\ lifted = [a \in Attempts |-> {}]
    /\ latest_view = EmptyMap /\ IdleGroup /\ IdleWrite /\ IdleIds /\ IdleNeed /\ IdleIter
NextT == NextX
SpecT == InitT /\ [][NextT]_vars

(***************************************************************************)
(* Identifier extraction: extract_identifiers_from_value and               *)
(* does_value_need_exchange on a value, a layout, the identifiers of the   *)
(* delayed write set and a key.  Cells are the two first identifiers of a  *)
(* parallel attempt and a plain number.                                    *)
(***************************************************************************)
MaxCells == 2
NeedCells == {BaseId("Sync"), BaseId("Sync") + 1, 7}
NeedValues ==
    {Modification(b) : b \in SeqsUpTo(NeedCells, MaxCells)} \cup {Deletion, Bytesless}
NeedLayouts == SeqsUpTo({"Plain", "U64", "String"}, MaxCells)

InitNeed ==
    need_call \in
        {[NoNeedCall EXCEPT !.pc = "start", !.value = v, !.layout = l,
                            !.delayed_write_set_ids = ids, !.key = k] :
            v \in NeedValues, l \in NeedLayouts, ids \in SUBSET NeedCells,
            k \in ResourceKeys}

\* extract_identifiers_from_value on the bytes of the value
ExtractIdentifiers ==
    /\ need_call.pc = "start"
    /\ IsSome(bytes(need_call.value))
    /\ need_call' = [need_call EXCEPT
                        !.pc = "extracted",
                        !.identifiers_in_read =
                            extract_identifiers_from_value(Unwrap(bytes(need_call.value)),
                                                           need_call.layout)]
    /\ UNCHANGED <<latest_view, groupVars, writeVars, exchVars, idVars, iterVars>>

DoesValueNeedExchange ==
    /\ need_call.pc \in {"start", "extracted"}
    /\ need_call' = [need_call EXCEPT
                        !.pc = "decided",
                        !.result = does_value_need_exchange(need_call.value,
                                       need_call.layout,
                                       need_call.delayed_write_set_ids, need_call.key)]
    /\ UNCHANGED <<latest_view, groupVars, writeVars, exchVars, idVars, iterVars>>

InitE ==
    /\ InitNeed
    /\ latest_view = EmptyMap /\ IdleGroup /\ IdleWrite /\ IdleExchange /\ IdleIds
    /\ IdleIter
NextE == ExtractIdentifiers \/ DoesValueNeedExchange
SpecE == InitE /\ [][NextE]_vars

(***************************************************************************)
(* Identifier generator.  GenIdStartValue is one call of                   *)
(* gen_id_start_value when a new attempt of the mode starts; GenerateIds   *)
(* is a run of consecutive generate_delayed_field_id calls of that         *)
(* attempt, so its identifiers are start .. start + count - 1.             *)
(***************************************************************************)
MaxBatches == 3
BatchSizes == {1, 1000000}

GenIdStartValue(sequential, draws) ==
    /\ \E rnd \in draws :
          IF sequential
          THEN /\ seq_start' = gen_id_start_value(sequential, rnd)
               /\ seq_count' = 0
               /\ UNCHANGED <<par_start, par_count>>
          ELSE /\ par_start' = gen_id_start_value(sequential, rnd)
               /\ par_count' = 0
               /\ UNCHANGED <<seq_start, seq_count>>
    /\ UNCHANGED <<latest_view, groupVars, writeVars, exchVars, needVars, iterVars>>

Batches(count) == (count \div 1000000) + (count % 1000000)

GenerateIds(sequential) ==
    /\ IF sequential THEN seq_start # 0 ELSE par_start # 0
    /\ \E k \in BatchSizes :
          IF sequential
          THEN /\ Batches(seq_count) < MaxBatches
               /\ seq_count' = seq_count + k
               /\ UNCHANGED par_count
          ELSE /\ Batches(par_count) < MaxBatches
               /\ par_count' = par_count + k
               /\ UNCHANGED seq_count
    /\ UNCHANGED <<seq_start, par_start, latest_view, groupVars, writeVars, exchVars, needVars, iterVars>>

InitIds == IdleIds /\ latest_view = EmptyMap /\ IdleGroup /\ IdleWrite /\ IdleExchange /\ IdleNeed /\ IdleIter

\* start values only: every draw of the generator's range.  The function
\* keeps no state between invocations, so one invocation per mode followed in
\* every combination covers every pair of invocations of a longer run.
StartSequential == seq_start = 0 /\ GenIdStartValue(TRUE, RngDraws(TRUE))
StartParallel == par_start = 0 /\ GenIdStartValue(FALSE, RngDraws(FALSE))
NextI == StartSequential \/ StartParallel
SpecI == InitIds /\ [][NextI]_vars

\* ranges of two attempts: the draws at both ends of the generator's range
EndDraws(sequential) ==
    {rnd \in RngDraws(sequential) :
        (rnd - 1) \notin RngDraws(sequential) \/ (rnd + 1) \notin RngDraws(sequential)}
StartSequentialAttempt == GenIdStartValue(TRUE, EndDraws(TRUE))
StartParallelAttempt == GenIdStartValue(FALSE, EndDraws(FALSE))
GenerateSequential == GenerateIds(TRUE)
GenerateParallel == GenerateIds(FALSE)
NextR == \/ StartSequentialAttempt \/ StartParallelAttempt
         \/ GenerateSequential \/ GenerateParallel
SpecR == InitIds /\ [][NextR]_vars

(***************************************************************************)
(* Properties of the group pipeline (SpecG).                               *)
(***************************************************************************)
IsFallback(r) == r.tag = "Err" /\ r.val = "FallbackToSequential"

\* C1: for a successfully finalized member list, map_finalized_group returns Ok
\* only when (the list is empty) = (the metadata op is a deletion), and returns
\* the fallback-to-sequential signal whenever the two differ.
C1_GroupInvariant ==
    (mfg_call.called /\ mfg_call.finalized_group.tag = "Ok") =>
        LET empty == mfg_call.finalized_group.val = << >>
            del == is_deletion(mfg_call.metadata_op)
        IN /\ mfg_call.result.tag = "Ok" => (empty = del)
           /\ (empty # del) => IsFallback(mfg_call.result)

\* Scenario B: an empty member list under a modification op was rejected
C1_Witness ==
    /\ mfg_call.called
    /\ mfg_call.finalized_group.tag = "Ok"
    /\ mfg_call.finalized_group.val = << >>
    /\ mfg_call.metadata_op.kind = "Modification"
    /\ IsFallback(mfg_call.result)

\* C2: a group flagged as a read needing exchange whose metadata op is a
\* deletion is rejected with the fallback signal, whatever its member list.
C2_ReadUnderDeletionRejected ==
    (mfg_call.called /\ mfg_call.is_read_needing_exchange
        /\ is_deletion(mfg_call.metadata_op)) => IsFallback(mfg_call.result)

\* the flagged group is empty under a deletion: emptiness = deletion holds
C2_Witness ==
    /\ mfg_call.called
    /\ mfg_call.is_read_needing_exchange
    /\ is_deletion(mfg_call.metadata_op)
    /\ mfg_call.finalized_group.tag = "Ok"
    /\ mfg_call.finalized_group.val = << >>
    /\ IsFallback(mfg_call.result)

\* C3: map_finalized_group followed by serialize_groups ends in a finalized
\* result or in the fallback signal: never in a fatal error or a panic.
C3_FinalizationNeverPanics ==
    /\ mfg_call.called => (mfg_call.result.tag = "Ok" \/ IsFallback(mfg_call.result))
    /\ ser_call.called => (ser_call.result.tag = "Ok" \/ IsFallback(ser_call.result))

DistinctTags(members) ==
    \A i, j \in DOMAIN members : i # j => members[i][1] # members[j][1]
MemberMap(members) ==
    [t \in {members[j][1] : j \in DOMAIN members} |->
        Unwrap(bytes(members[CHOOSE j \in DOMAIN members : members[j][1] = t][2]))]

\* C10: for every group whose members carry bytes and have distinct tags, the
\* bytes serialize_groups sets on the metadata op decode back to the tag ->
\* bytes mapping of the members, and the group key is returned unchanged.
C10_SerializeRoundTrip ==
    (ser_call.called /\ ser_call.result.tag = "Ok") =>
        /\ Len(ser_call.result.val) = Len(patched_groups)
        /\ \A i \in DOMAIN patched_groups :
              LET out == ser_call.result.val[i]
                  members == patched_groups[i][3]
              IN /\ out[1] = patched_groups[i][1]
                 /\ DistinctTags(members) =>
                       /\ IsSome(bytes(out[2]))
                       /\ LET d == bcs_from_bytes(Unwrap(bytes(out[2])))
                          IN d.tag = "Ok" /\ d.val = MemberMap(members)

\* Scenario A: a group of two members, tags 1 and 2, under a modification op
C10_Witness ==
    /\ ser_call.called
    /\ ser_call.result.tag = "Ok"
    /\ \E i \in DOMAIN patched_groups :
          /\ patched_groups[i][2].kind = "Modification"
          /\ Len(patched_groups[i][3]) = 2
          /\ patched_groups[i][3][1][1] = 1
          /\ patched_groups[i][3][2][1] = 2
          /\ bcs_from_bytes(Unwrap(bytes(ser_call.result.val[i][2]))).tag = "Ok"

\* the tags of a group blob, in the order the blob holds its entries
BlobTags(blob) ==
    LET RECURSIVE TagsFrom(_, _)
        TagsFrom(pos, n) ==
            IF n = 0 THEN << >>
            ELSE <<blob[pos]>> \o TagsFrom(pos + 2 + blob[pos + 1], n - 1)
    IN TagsFrom(2, blob[1])

MemberOrders(n) == {f \in [1 .. n -> 1 .. n] : \A i, j \in 1 .. n : i # j => f[i] # f[j]}

\* C11: for members with distinct tags, every permutation of a group's (tag,
\* value) pairs gives the same group blob, and its entries are in ascending
\* tag order.
C11_OrderIndependent ==
    (ser_call.called /\ ser_call.result.tag = "Ok") =>
        \A i \in DOMAIN patched_groups :
            LET g == patched_groups[i]
                members == g[3]
                blob == Unwrap(bytes(ser_call.result.val[i][2]))
            IN DistinctTags(members) =>
                  /\ \A f \in MemberOrders(Len(members)) :
                        SerializeGroup(<<g[1], g[2], [j \in DOMAIN members |-> members[f[j]]]>>,
                                       ser_call.too_long[i]) = Ok(ser_call.result.val[i])
                  /\ Len(BlobTags(blob)) = Len(members)
                  /\ \A j, k \in DOMAIN BlobTags(blob) :
                        j < k => BlobTags(blob)[j] < BlobTags(blob)[k]

\* two members arrived with the larger tag first
C11_Witness ==
    /\ ser_call.called
    /\ ser_call.result.tag = "Ok"
    /\ \E i \in DOMAIN patched_groups :
          /\ Len(patched_groups[i][3]) = 2
          /\ patched_groups[i][3][1][1] > patched_groups[i][3][2][1]

\* the number the view holds for an identifier, as the attempt sees it
ResolvedCell(view, id) ==
    IF view.mode = "Unsync" THEN view.unsync_map[id].v
    ELSE view.versioned_map[<<id, SeqMax({t \in 0 .. view.txn_idx :
                                   <<id, t>> \in DOMAIN view.versioned_map})>>].v

\* C12: on success map_id_to_values_in_group_writes returns the same groups in
\* the same order with the same key and metadata op and the same tags in the
\* same order; a RawFromStorage member and an Exchanged member without a layout
\* keep their value; an Exchanged member with a layout gets the value whose
\* bytes are the input bytes with every identifier replaced by its resolved
\* value.
C12_GroupWritesPatched ==
    (gpc = "patched" \/ ser_call.called) =>
        /\ Len(patched_groups) = Len(finalized_groups)
        /\ \A i \in DOMAIN finalized_groups :
              LET in == finalized_groups[i]
                  out == patched_groups[i]
              IN /\ out[1] = in[1]
                 /\ out[2] = in[2]
                 /\ Len(out[3]) = Len(in[3])
                 /\ \A j \in DOMAIN in[3] :
                       LET vwl == in[3][j][2]
                           v == out[3][j][2]
                       IN /\ out[3][j][1] = in[3][j][1]
                          /\ (vwl.variant = "RawFromStorage" \/ ~IsSome(vwl.layout))
                                => v = vwl.value
                          /\ (vwl.variant = "Exchanged" /\ IsSome(vwl.layout)) =>
                                LET b == Unwrap(bytes(vwl.value))
                                    l == Unwrap(vwl.layout)
                                IN /\ IsSome(bytes(v))
                                   /\ Len(Unwrap(bytes(v))) = Len(b)
                                   /\ \A q \in DOMAIN b :
                                         Unwrap(bytes(v))[q] =
                                            IF l[q] = "Plain" THEN b[q]
                                            ELSE ResolvedCell(latest_view, b[q])

\* a patched group holds a raw member and a member whose identifier was resolved
C12_Witness ==
    /\ gpc = "patched"
    /\ \E i \in DOMAIN finalized_groups :
          \E j, k \in DOMAIN finalized_groups[i][3] :
              /\ finalized_groups[i][3][j][2].variant = "RawFromStorage"
              /\ finalized_groups[i][3][k][2].variant = "Exchanged"
              /\ IsSome(finalized_groups[i][3][k][2].layout)
              /\ patched_groups[i][3][k][2] # finalized_groups[i][3][k][2].value

\* C19: every error map_finalized_group and serialize_groups return is the
\* fallback-to-sequential signal, also for a finalized_group that is an Err;
\* every error map_id_to_values_in_group_writes and replace_ids_with_values
\* return is a PanicError.
C19_ErrorKindsDisjoint ==
    /\ (mfg_call.called /\ mfg_call.result.tag # "Ok") =>
          mfg_call.result = FallbackToSequential
    /\ (mfg_call.called /\ mfg_call.finalized_group.tag = "Err") =>
          mfg_call.result = FallbackToSequential
    /\ (ser_call.called /\ ser_call.result.tag = "Err") =>
          ser_call.result = FallbackToSequential
    /\ gpc = "patch_fatal" =>
          map_id_to_values_in_group_writes(finalized_groups, latest_view) = PanicErr
    /\ \A i \in DOMAIN finalized_groups :
          \A j \in DOMAIN finalized_groups[i][3] :
              LET vwl == finalized_groups[i][3][j][2]
              IN IsSome(vwl.layout) =>
                    LET r == replace_ids_with_values(vwl.value, Unwrap(vwl.layout),
                                                     latest_view)
                    IN r.tag = "Err" => r = PanicErr

\* a group passed map_finalized_group and the patch returned its error
C19_Witness ==
    /\ gpc = "patch_fatal"
    /\ mfg_call.called
    /\ mfg_call.result.tag = "Ok"
    /\ map_id_to_values_in_group_writes(finalized_groups, latest_view).tag = "Err"

\* C27: when map_finalized_group returns Ok, what it returns is its input: the
\* group key, the metadata op and the member list as given, every member with
\* its ValueWithLayout, none resolved, moved, added or dropped; the collected
\* groups grow by exactly that group.
C27_FinalizedGroupUnchanged ==
    (mfg_call.called /\ mfg_call.result.tag = "Ok") =>
        /\ mfg_call.finalized_group.tag = "Ok"
        /\ mfg_call.result.val[1] = mfg_call.group_key
        /\ mfg_call.result.val[2] = mfg_call.metadata_op
        /\ Len(mfg_call.result.val[3]) = Len(mfg_call.finalized_group.val)
        /\ \A j \in DOMAIN mfg_call.finalized_group.val :
              mfg_call.result.val[3][j] = mfg_call.finalized_group.val[j]
        /\ finalized_groups # << >>
        /\ finalized_groups[Len(finalized_groups)] = mfg_call.result.val

\* a group of a read needing exchange with two members, tags descending, an
\* unresolved identifier and a deletion among them, came back as it was
C27_Witness ==
    /\ mfg_call.called
    /\ mfg_call.result.tag = "Ok"
    /\ mfg_call.is_read_needing_exchange
    /\ Len(mfg_call.result.val[3]) = 2
    /\ mfg_call.result.val[3][1][1] > mfg_call.result.val[3][2][1]
    /\ mfg_call.result.val[3][1][2].variant = "Exchanged"
    /\ IsSome(mfg_call.result.val[3][1][2].layout)
    /\ is_deletion(mfg_call.result.val[3][2][2].value)

\* the last member of the list that carries the tag
LastWithTag(members, t) == SeqMax({j \in DOMAIN members : members[j][1] = t})

\* the bytes of a finalized member with no identifier left: the cell of every
\* delayed position is the number the view resolves its identifier to
ResolvedBytes(view, vwl) ==
    LET b == Unwrap(bytes(vwl.value))
    IN IF vwl.variant = "Exchanged" /\ IsSome(vwl.layout)
       THEN [q \in DOMAIN b |-> IF Unwrap(vwl.layout)[q] = "Plain" THEN b[q]
                                ELSE ResolvedCell(view, b[q])]
       ELSE b

\* C21: in every run of map_finalized_group -> map_id_to_values_in_group_writes
\* -> serialize_groups, the blob of every group holds, for each member, the
\* member's bytes with every identifier replaced by the value the view
\* resolves it to: the blob is produced from patched members only and no
\* identifier is left in it.
C21_GroupBlobsResolved ==
    (ser_call.called /\ ser_call.result.tag = "Ok") =>
        /\ gpc = "serialized"
        /\ Len(ser_call.result.val) = Len(finalized_groups)
        /\ \A i \in DOMAIN finalized_groups :
              LET members == finalized_groups[i][3]
                  blob == bcs_from_bytes(Unwrap(bytes(ser_call.result.val[i][2])))
              IN /\ blob.tag = "Ok"
                 /\ DOMAIN blob.val = {members[j][1] : j \in DOMAIN members}
                 /\ \A t \in DOMAIN blob.val :
                       blob.val[t] =
                           ResolvedBytes(latest_view, members[LastWithTag(members, t)][2])

\* a serialized group with a member that held an identifier
C21_Witness ==
    /\ gpc = "serialized"
    /\ ser_call.result.tag = "Ok"
    /\ \E i \in DOMAIN finalized_groups :
          \E j \in DOMAIN finalized_groups[i][3] :
              LET vwl == finalized_groups[i][3][j][2]
                  t == finalized_groups[i][3][j][1]
              IN /\ vwl.variant = "Exchanged" /\ IsSome(vwl.layout)
                 /\ LastWithTag(finalized_groups[i][3], t) = j
                 /\ bcs_from_bytes(Unwrap(bytes(ser_call.result.val[i][2]))).val[t]
                       # Unwrap(bytes(vwl.value))

Flagged(items, flag) == [i \in DOMAIN items |-> <<items[i], flag>>]

\* C22: the consumer of groups_to_finalize sees the groups of
\* resource_group_metadata_ops first, in order and flagged false, then the
\* groups of group_reads_needing_delayed_field_exchange flagged true; that
\* function has been invoked exactly when next() was called more often than
\* there are metadata ops, so never before the ops are consumed and never for
\* a consumer that stops earlier.
C22_ReadsFetchedLazily ==
    gtf.pc # "idle" =>
        LET all == Flagged(gtf.outputs_ops, FALSE) \o Flagged(gtf.outputs_reads, TRUE)
        IN /\ Len(gtf.yielded) <= Len(all)
           /\ gtf.yielded = SubSeq(all, 1, Len(gtf.yielded))
           /\ gtf.invoked <=> gtf.next_calls > Len(gtf.outputs_ops)
           /\ gtf.pc = "exhausted" => gtf.yielded = all
           /\ (gtf.pc = "stopped" /\ Len(gtf.yielded) <= Len(gtf.outputs_ops))
                 => ~gtf.invoked

\* the consumer stopped right after the last metadata op, reads pending
C22_Witness ==
    /\ gtf.pc = "stopped"
    /\ gtf.outputs_ops # << >>
    /\ gtf.outputs_reads # << >>
    /\ Len(gtf.yielded) = Len(gtf.outputs_ops)
    /\ ~gtf.invoked

\* C29: the blob serialize_groups builds for a group has one entry for each
\* distinct tag of the group, also when a tag occurs more than once, and the
\* entry of a tag holds the bytes of the last member that carries it.
C29_LastOccurrenceOfTagKept ==
    (ser_call.called /\ ser_call.result.tag = "Ok") =>
        \A i \in DOMAIN patched_groups :
            LET members == patched_groups[i][3]
                tags == {members[j][1] : j \in DOMAIN members}
                group_bytes == Unwrap(bytes(ser_call.result.val[i][2]))
                blob == bcs_from_bytes(group_bytes)
            IN /\ group_bytes[1] = Cardinality(tags)
               /\ blob.tag = "Ok"
               /\ DOMAIN blob.val = tags
               /\ \A t \in tags :
                     blob.val[t] = Unwrap(bytes(members[LastWithTag(members, t)][2]))

\* a serialized group with two members of one tag and different bytes
C29_Witness ==
    /\ ser_call.called
    /\ ser_call.result.tag = "Ok"
    /\ \E i \in DOMAIN patched_groups :
          /\ Len(patched_groups[i][3]) = 2
          /\ patched_groups[i][3][1][1] = patched_groups[i][3][2][1]
          /\ bytes(patched_groups[i][3][1][2]) # bytes(patched_groups[i][3][2][2])
          /\ Unwrap(bytes(ser_call.result.val[i][2]))[1] = 1

\* the members of all groups, in input order
RECURSIVE AllMembers(_)
AllMembers(groups) ==
    IF groups = << >> THEN << >> ELSE Head(groups)[3] \o AllMembers(Tail(groups))

\* an exchanged member with a layout whose value cannot be converted to a
\* modification or has no bytes
FailsToResolve(vwl) ==
    /\ vwl.variant = "Exchanged" /\ IsSome(vwl.layout)
    /\ (is_deletion(vwl.value) \/ ~IsSome(bytes(vwl.value)))
\* an exchanged member with a layout and bytes in which an identifier does not
\* resolve
PanicsToResolve(vwl, view) ==
    /\ vwl.variant = "Exchanged" /\ IsSome(vwl.layout)
    /\ ~is_deletion(vwl.value) /\ IsSome(bytes(vwl.value))
    /\ replace_identifiers_with_values(view, Unwrap(bytes(vwl.value)),
                                       Unwrap(vwl.layout)).tag # "Ok"

\* map_id_to_values_in_group_writes was called on finalized_groups
PatchCalled ==
    \/ gpc \in {"patched", "patch_fatal", "patch_panicked"}
    \/ ser_call.called

\* C30: map_id_to_values_in_group_writes returns the PanicError, and no list of
\* groups, exactly when it reaches a member whose value has no bytes or is not
\* convertible to a modification: one with no member before it, in input
\* order, that ended the call.  The members after it are not resolved: the
\* outcome is the same whatever they are.
C30_PatchIsAllOrNothing ==
    PatchCalled =>
        LET members == AllMembers(finalized_groups)
            reached(k) == \A j \in 1 .. (k - 1) :
                              /\ ~FailsToResolve(members[j][2])
                              /\ ~PanicsToResolve(members[j][2], latest_view)
            fails == \E k \in DOMAIN members : FailsToResolve(members[k][2]) /\ reached(k)
        IN /\ fails <=> gpc = "patch_fatal"
           /\ fails =>
                 /\ patched_groups = << >>
                 /\ map_id_to_values_in_group_writes(finalized_groups, latest_view)
                       = PanicErr

\* the failing member is followed by a member whose identifier does not
\* resolve: the call returned the error and did not panic
C30_Witness ==
    /\ gpc = "patch_fatal"
    /\ LET members == AllMembers(finalized_groups)
       IN /\ Len(members) = 2
          /\ FailsToResolve(members[1][2])
          /\ PanicsToResolve(members[2][2], latest_view)

(***************************************************************************)
(* Properties of the write-set patch (SpecW).                              *)
(***************************************************************************)
Skipped(i) ==
    is_deletion(resource_write_set[i][2]) \/ ~IsSome(resource_write_set[i][3])
\* the last input write of the key that the loop patches
LastPatched(key) ==
    SeqMax({i \in DOMAIN resource_write_set :
               resource_write_set[i][1] = key /\ ~Skipped(i)})
\* C4 (as stated): extracting identifiers from any blob of the returned mapping
\* yields the empty set.
C4_ExtractionYieldsEmptySet ==
    wpc = "returned" =>
        \A key \in DOMAIN patched_resource_write_set :
            LET r == extract_identifiers_from_value(
                         Unwrap(bytes(patched_resource_write_set[key])),
                         Unwrap(resource_write_set[LastPatched(key)][3]))
            IN r.tag = "Ok" /\ r.val = {}

\* C4 (amended): every write of the returned mapping holds, at each delayed
\* position of its layout, the value the view resolves the input's identifier
\* to, and its input cell at every other position.
C4_IdentifiersReplaced ==
    wpc = "returned" =>
        \A key \in DOMAIN patched_resource_write_set :
            LET i == LastPatched(key)
                in == Unwrap(bytes(resource_write_set[i][2]))
                layout == Unwrap(resource_write_set[i][3])
                out == Unwrap(bytes(patched_resource_write_set[key]))
            IN /\ Len(out) = Len(in)
               /\ \A p \in DOMAIN in :
                     out[p] = IF layout[p] = "Plain" THEN in[p]
                              ELSE ResolvedCell(latest_view, in[p])

\* a returned write whose identifier was replaced by a different number
C4_Witness ==
    /\ wpc = "returned"
    /\ \E key \in DOMAIN patched_resource_write_set :
          bytes(patched_resource_write_set[key])
              # bytes(resource_write_set[LastPatched(key)][2])

\* C5 (as stated): every deletion and every layout-less write is in the
\* returned mapping with the write op it had in the input.
C5_SkippedWritesPassThrough ==
    wpc = "returned" =>
        \A i \in DOMAIN resource_write_set :
            Skipped(i) =>
                /\ resource_write_set[i][1] \in DOMAIN patched_resource_write_set
                /\ patched_resource_write_set[resource_write_set[i][1]]
                       = resource_write_set[i][2]

\* C5 (amended): a deletion or a layout-less write adds no entry to the
\* returned mapping: its key is in the mapping only when some input write of
\* that key has a layout and is not a deletion.
C5_SkippedWritesLeftOut ==
    wpc = "returned" =>
        \A i \in DOMAIN resource_write_set :
            Skipped(i) =>
                (resource_write_set[i][1] \in DOMAIN patched_resource_write_set
                    <=> \E j \in DOMAIN resource_write_set :
                           /\ resource_write_set[j][1] = resource_write_set[i][1]
                           /\ ~Skipped(j))

\* a deletion and a layout-less write went in, and the mapping came back empty
C5_Witness ==
    /\ wpc = "returned"
    /\ patched_resource_write_set = EmptyMap
    /\ \E i, j \in DOMAIN resource_write_set :
          /\ is_deletion(resource_write_set[i][2])
          /\ ~is_deletion(resource_write_set[j][2])
          /\ ~IsSome(resource_write_set[j][3])

LayoutWithoutBytes(i) ==
    /\ IsSome(resource_write_set[i][3])
    /\ ~is_deletion(resource_write_set[i][2])
    /\ ~IsSome(bytes(resource_write_set[i][2]))

\* C6: when a write has a layout, is not a deletion and carries no bytes, the
\* call returns no mapping: it ends in a panic, its only outcome besides
\* returning the mapping.
C6_BytelessWriteIsFatal ==
    /\ wpc \in {"idle", "start", "returned", "panicked"}
    /\ (wpc \notin {"idle", "start"}
           /\ \E i \in DOMAIN resource_write_set : LayoutWithoutBytes(i))
          => (wpc = "panicked" /\ patched_resource_write_set = EmptyMap)

\* the write without bytes follows a write that was patched
C6_Witness ==
    /\ wpc = "panicked"
    /\ Len(resource_write_set) = 2
    /\ ~Skipped(1) /\ IsSome(bytes(resource_write_set[1][2]))
    /\ replace_identifiers_with_values(latest_view,
           Unwrap(bytes(resource_write_set[1][2])),
           Unwrap(resource_write_set[1][3])).tag = "Ok"
    /\ LayoutWithoutBytes(2)

\* C26: the keys of the mapping map_id_to_values_in_write_set returns are the
\* keys of the input writes that have a layout and are not deletions; for a
\* key with several such writes the entry is the one of the last of them in
\* input order: its write op with its patched bytes.
C26_KeysOfPatchedWrites ==
    wpc = "returned" =>
        /\ DOMAIN patched_resource_write_set =
              {resource_write_set[i][1] :
                  i \in {j \in DOMAIN resource_write_set : ~Skipped(j)}}
        /\ \A key \in DOMAIN patched_resource_write_set :
              LET last == resource_write_set[LastPatched(key)]
                  r == replace_identifiers_with_values(latest_view,
                           Unwrap(bytes(last[2])), Unwrap(last[3]))
              IN /\ r.tag = "Ok"
                 /\ patched_resource_write_set[key] = set_bytes(last[2], r.val)

\* two writes of one key were patched, and they differ
C26_Witness ==
    /\ wpc = "returned"
    /\ Len(resource_write_set) = 2
    /\ resource_write_set[1][1] = resource_write_set[2][1]
    /\ ~Skipped(1) /\ ~Skipped(2)
    /\ resource_write_set[1][2].kind # resource_write_set[2][2].kind
    /\ patched_resource_write_set[resource_write_set[2][1]].kind
          = resource_write_set[2][2].kind

(***************************************************************************)
(* Properties of the exchange engine (SpecX).                              *)
(***************************************************************************)
\* C7: within one attempt, Sync or Unsync, identifier_to_value under layout L
\* of what value_to_identifier(K, L, v) returned gives v back, whatever calls
\* happened since.
C7_RoundTrip ==
    \A a \in DOMAIN lifted :
        \A l \in lifted[a] :
            LET r == identifier_to_value(ExchangeViewOf(a), TouchedOf(a),
                                         l.layout, l.idval)
            IN r.tag = "Ok" /\ r.val = l.value

\* two parallel attempts lifted different values under the same identifier, and
\* the followed engine has lifted and then resolved it
C7_Witness ==
    \E a \in DOMAIN lifted, b \in DOMAIN lifted :
        /\ a # b
        /\ att[a].mode = "Sync" /\ att[b].mode = "Sync"
        /\ engine.owner = a
        /\ \E la \in lifted[a], lb \in lifted[b] :
              /\ la.idval = lb.idval
              /\ la.value # lb.value
              /\ la.idval.n \in engine.touched

\* what the ViewState of attempt a holds for an identifier in the store st and
\* the attempts at
StoredIn(st, at, a, id) ==
    IF at[a].mode = "Sync"
    THEN read_latest_committed_value(st, id, at[a].txn_idx, "AfterCurrentTxn")
    ELSE read_delayed_field(at[a].unsync_map, id)

\* C13: a successful value_to_identifier call returns the encoding of an
\* identifier that no earlier call of the attempt generated; after it the
\* ViewState of the attempt maps the identifier to the DelayedFieldValue
\* converted from the input value, and the engine's touched-set contains it.
C13_FreshIdentifierStored ==
    [][\A a \in DOMAIN lifted :
          lifted'[a] # lifted[a] =>
              LET new == CHOOSE l \in lifted'[a] \ lifted[a] : TRUE
                  id == new.idval.n
                  conv == DelayedFieldValue_try_from_move_value(new.layout, new.value,
                                                                new.kind)
              IN /\ new.idval = MoveValue(new.layout, id)
                 /\ id \notin Generated(a)
                 /\ \A l \in lifted[a] : l.idval.n # id
                 /\ id \in (att'[a].start .. (att'[a].next - 1))
                 /\ conv.tag = "Ok"
                 /\ StoredIn(versioned', att', a, id) = Some(conv.val)
                 /\ engine.owner = a => id \in engine'.touched]_vars

\* the followed engine made two successful value_to_identifier calls
C13_Witness ==
    \E a \in DOMAIN lifted :
        /\ engine.owner = a
        /\ \E l1, l2 \in lifted[a] :
              /\ l1.idval.n # l2.idval.n
              /\ {l1.idval.n, l2.idval.n} \subseteq engine.touched

\* C14: identifier_to_value on an identifier for which the ViewState holds no
\* value fails fatally: it returns no value, no default and no recoverable
\* error.
C14_UnsetIdentifierIsFatal ==
    \A a \in DOMAIN att :
        \A layout \in ExchangeLayouts, id \in KnownIds(a) :
            LET r == identifier_to_value(ExchangeViewOf(a), TouchedOf(a), layout,
                                         MoveValue(layout, id))
            IN ~IsSome(StoredIn(versioned, att, a, id)) => r.tag = "Panic"

\* the engine of transaction 0 was handed an identifier that only transaction 1
\* has set, and its attempt ended in the panic
C14_Witness ==
    /\ engine.owner = 1
    /\ att[1].status = "panicked"
    /\ \E id \in engine.touched :
          /\ <<id, 1>> \in DOMAIN versioned
          /\ <<id, 0>> \notin DOMAIN versioned

\* C15: in Sync mode identifier_to_value of transaction t returns the encoding
\* of the value t itself set for the identifier if there is one, otherwise of
\* the value last set by a transaction t' < t, never one of a larger index; the
\* identifier is in the touched-set afterwards.
C15_SyncReadsAfterCurrentTxn ==
    \A a \in DOMAIN att :
        att[a].mode = "Sync" =>
            \A layout \in ExchangeLayouts, id \in KnownIds(a) :
                LET t == att[a].txn_idx
                    r == identifier_to_value(ExchangeViewOf(a), TouchedOf(a), layout,
                                             MoveValue(layout, id))
                    earlier == {u \in 0 .. (t - 1) : <<id, u>> \in DOMAIN versioned}
                    seen == IF <<id, t>> \in DOMAIN versioned THEN versioned[<<id, t>>]
                            ELSE versioned[<<id, SeqMax(earlier)>>]
                IN /\ id \in r.touched
                   /\ (<<id, t>> \in DOMAIN versioned \/ earlier # {}) =>
                         IF VariantFitsLayout(seen.variant, layout)
                         THEN r.tag = "Ok" /\ r.val = MoveValue(layout, seen.v)
                         ELSE r.tag = "Err"
                   /\ r.tag = "Ok" =>
                         (<<id, t>> \in DOMAIN versioned \/ earlier # {})

\* Scenario C: the engine of transaction 1 resolved an identifier that only
\* transaction 0 has set
C15_Witness ==
    /\ engine.owner = 2
    /\ att[2].status = "running"
    /\ \E id \in engine.touched :
          /\ <<id, 0>> \in DOMAIN versioned
          /\ <<id, 1>> \notin DOMAIN versioned

\* C16: a new engine has an empty touched-set, and after any sequence of
\* successful calls on one engine into_inner returns exactly the identifiers
\* generated by its value_to_identifier calls and decoded by its
\* identifier_to_value calls; none is removed.
C16_TouchedSetAccumulates ==
    calls.tracking =>
        /\ (calls.generated \cup calls.decoded) \subseteq into_inner(engine.touched)
        /\ calls.clean =>
              into_inner(engine.touched) = calls.generated \cup calls.decoded

\* the followed engine decoded an identifier an earlier engine generated, and
\* generated one itself
C16_Witness ==
    /\ calls.tracking
    /\ calls.clean
    /\ calls.generated # {}
    /\ calls.decoded \ calls.generated # {}

\* C20: each value_to_identifier call writes one entry, for the identifier it
\* just generated, through the ViewState of its own attempt (Sync: under its
\* own transaction index; Unsync: in its private map); no call changes or
\* removes an entry of another transaction or attempt, and a write of an Unsync
\* attempt is not observable by another attempt.
C20_WritesAreIsolated ==
    [][/\ \A k \in DOMAIN versioned :
             k \in DOMAIN versioned' /\ versioned'[k] = versioned[k]
       /\ Cardinality(DOMAIN versioned' \ DOMAIN versioned) <= 1
       /\ \A k \in DOMAIN versioned' \ DOMAIN versioned :
             \E a \in DOMAIN att :
                 /\ att[a].mode = "Sync"
                 /\ k = <<att[a].next, att[a].txn_idx>>
                 /\ att'[a].next = att[a].next + 1
                 /\ \A b \in DOMAIN att \ {a} : att'[b] = att[b]
       /\ \A a \in DOMAIN att :
             att'[a].unsync_map # att[a].unsync_map =>
                 /\ att[a].mode = "Unsync"
                 /\ versioned' = versioned
                 /\ \A b \in DOMAIN att \ {a} : att'[b] = att[b]
                 /\ DOMAIN att'[a].unsync_map
                        = DOMAIN att[a].unsync_map \cup {att[a].next}
                 /\ \A id \in DOMAIN att[a].unsync_map :
                       att'[a].unsync_map[id] = att[a].unsync_map[id]
       /\ \A a \in DOMAIN att, b \in DOMAIN att :
             (a # b /\ att'[a].mode = "Unsync") =>
                 \A id \in DOMAIN att'[a].unsync_map :
                     ~IsSome(StoredIn(versioned', att', b, id))]_vars

\* two parallel attempts have each written their entry for the same identifier
C20_Witness ==
    /\ \E id \in UNION {Generated(a) : a \in DOMAIN att} :
          /\ <<id, 0>> \in DOMAIN versioned
          /\ <<id, 1>> \in DOMAIN versioned
          /\ versioned[<<id, 0>>] # versioned[<<id, 1>>]

\* C24: a value_to_identifier call whose input does not convert to a
\* DelayedFieldValue for the kind and layout returns an error, stores nothing
\* in the ViewState and leaves the touched-set as it was, but uses up the
\* identifier generated at its start: the next successful call of the attempt
\* returns the identifier after it.
C24_FailedLiftConsumesIdentifier ==
    \A a \in DOMAIN att :
        att[a].status = "running" =>
            \A kind \in Kinds, layout \in ExchangeLayouts, value \in ExchangeValues :
                DelayedFieldValue_try_from_move_value(layout, value, kind).tag # "Ok" =>
                    LET r == value_to_identifier(ExchangeViewOf(a), TouchedOf(a),
                                                 kind, layout, value)
                    IN /\ r.tag = "Err"
                       /\ r.view.versioned_map = versioned
                       /\ r.view.unsync_map = att[a].unsync_map
                       /\ r.touched = TouchedOf(a)
                       /\ r.view.next = att[a].next + 1
                       /\ LET r2 == value_to_identifier(r.view, r.touched, "Aggregator",
                                                        "U64", MoveValue("U64", 5))
                              new == att[a].next + 1
                          IN /\ r2.tag = "Ok"
                             /\ r2.val = MoveValue("U64", new)
                             /\ r2.touched = TouchedOf(a) \cup {new}
                             /\ r2.view = set_delayed_field_value(
                                              [r.view EXCEPT !.next = new + 1], new, Agg(5))

\* the first call of the followed engine's attempt failed and its second call
\* was successful: the attempt's first identifier was never handed out
C24_Witness ==
    \E a \in DOMAIN att :
        /\ engine.owner = a
        /\ att[a].next = att[a].start + 2
        /\ Cardinality(lifted[a]) = 1
        /\ \A l \in lifted[a] : l.idval.n = att[a].start + 1
        /\ engine.touched = {att[a].start + 1}

\* C25: identifier_to_value writes nothing: whatever its outcome, the view
\* after the call is the view before it, so every identifier maps to the same
\* value and no identifier was generated.  The decoded identifier is in the
\* touched-set after the call also when the lookup or the conversion of the
\* value failed, and a call that fails to decode leaves the touched-set as it
\* was.
C25_ResolveWritesNothing ==
    \A a \in DOMAIN att :
        att[a].status = "running" =>
            \A in \in ResolveInputs(a) :
                LET view == ExchangeViewOf(a)
                    r == identifier_to_value(view, TouchedOf(a), in[1], in[2])
                IN /\ r.view = view
                   /\ in[2].ty # in[1] => (r.tag = "Err" /\ r.touched = TouchedOf(a))
                   /\ in[2].ty = in[1] => r.touched = TouchedOf(a) \cup {in[2].n}

\* the engine of transaction 1 resolved an identifier that transaction 0 has
\* set; transaction 1 has generated nothing and the store holds no entry of it
C25_Witness ==
    /\ engine.owner = 2
    /\ att[2].status = "running"
    /\ att[2].next = att[2].start
    /\ engine.touched # {}
    /\ \A id \in engine.touched : <<id, 0>> \in DOMAIN versioned
    /\ \A k \in DOMAIN versioned : k[2] = 0

(***************************************************************************)
(* Properties of identifier extraction (SpecE).                            *)
(***************************************************************************)
\* the cells of the bytes at the delayed positions of the layout
EmbeddedIds(bs, layout) == {bs[p] : p \in {q \in DOMAIN bs : layout[q] # "Plain"}}

\* C17: extraction returns exactly the identifiers embedded in the bytes, and
\* both directions of TemporaryExtractIdentifiersMapping hand the identifier
\* position back unchanged and record the identifier, minting none.
C17_ExtractionIsReadOnly ==
    need_call.pc = "extracted" =>
        LET bs == Unwrap(bytes(need_call.value))
            layout == need_call.layout
            r == need_call.identifiers_in_read
        IN /\ (r.tag = "Ok") = (Len(bs) = Len(layout))
           /\ r.tag = "Ok" =>
                 /\ r.val = EmbeddedIds(bs, layout)
                 /\ \A p \in DOMAIN bs :
                       layout[p] # "Plain" =>
                           LET v == MoveValue(layout[p], bs[p])
                               f == Extract_value_to_identifier({}, "Aggregator",
                                                                layout[p], v)
                               b == Extract_identifier_to_value({}, layout[p], v)
                           IN /\ f.tag = "Ok" /\ f.val = v /\ f.touched = {bs[p]}
                              /\ b.tag = "Ok" /\ b.val = v /\ b.touched = {bs[p]}

\* two different identifiers were extracted from one value
C17_Witness ==
    /\ need_call.pc = "extracted"
    /\ need_call.identifiers_in_read.tag = "Ok"
    /\ Cardinality(need_call.identifiers_in_read.val) = 2

\* C18: does_value_need_exchange returns Some(Ok(key, metadata, layout))
\* exactly when the value has bytes, extraction succeeds and the extracted
\* identifiers share one with delayed_write_set_ids; None when the value has
\* no bytes or the sets are disjoint; Some(Err(PanicError)) when extraction
\* fails.
C18_NeedsExchangeIffSharedId ==
    need_call.pc = "decided" =>
        LET value == need_call.value
            layout == need_call.layout
            extracts == IsSome(bytes(value)) /\ Len(Unwrap(bytes(value))) = Len(layout)
            shared == extracts /\
                      EmbeddedIds(Unwrap(bytes(value)), layout)
                          \cap need_call.delayed_write_set_ids # {}
        IN /\ need_call.result # None => need_call.result[1].tag \in {"Ok", "Err"}
           /\ shared <=> (/\ need_call.result # None
                          /\ need_call.result[1].tag = "Ok"
                          /\ need_call.result[1].val =
                                <<need_call.key, <<[metadata_of |-> value.kind], layout>>>>)
           /\ (~IsSome(bytes(value)) \/ (extracts /\ ~shared))
                 <=> need_call.result = None
           /\ (IsSome(bytes(value)) /\ ~extracts)
                 <=> (need_call.result # None /\ need_call.result[1] = PanicErr)

\* a value with two identifiers, one of them in the delayed write set
C18_Witness ==
    /\ need_call.pc = "decided"
    /\ need_call.result # None
    /\ need_call.result[1].tag = "Ok"
    /\ IsSome(bytes(need_call.value))
    /\ Cardinality(EmbeddedIds(Unwrap(bytes(need_call.value)), need_call.layout)) = 2
    /\ Cardinality(EmbeddedIds(Unwrap(bytes(need_call.value)), need_call.layout)
                      \cap need_call.delayed_write_set_ids) = 1

\* the value of the call has bytes from which identifiers extract, and one of
\* them is in delayed_write_set_ids
SharesIdentifier ==
    /\ IsSome(bytes(need_call.value))
    /\ Len(Unwrap(bytes(need_call.value))) = Len(need_call.layout)
    /\ EmbeddedIds(Unwrap(bytes(need_call.value)), need_call.layout)
           \cap need_call.delayed_write_set_ids # {}

\* C23 (as stated): when the identifiers embedded in the value are not disjoint
\* from delayed_write_set_ids, the outcome of does_value_need_exchange is the
\* fallback-to-sequential signal.
C23_SharedIdentifierFallsBack ==
    (need_call.pc = "decided" /\ SharesIdentifier) =>
        need_call.result = Some(FallbackToSequential)

\* C23 (amended): when the identifiers embedded in the value are not disjoint
\* from delayed_write_set_ids, the outcome is the normal result Some(Ok(..));
\* no outcome of the check is the fallback signal, and its only error is the
\* PanicError of a failed extraction.
C23_SharedIdentifierIsNormalResult ==
    need_call.pc = "decided" =>
        /\ SharesIdentifier =>
              (need_call.result # None /\ need_call.result[1].tag = "Ok")
        /\ need_call.result # Some(FallbackToSequential)
        /\ (need_call.result # None /\ need_call.result[1].tag # "Ok") =>
              /\ need_call.result = Some(PanicErr)
              /\ ~SharesIdentifier

\* every identifier of the value is in the delayed write set
C23_Witness ==
    /\ need_call.pc = "decided"
    /\ SharesIdentifier
    /\ Cardinality(EmbeddedIds(Unwrap(bytes(need_call.value)), need_call.layout)) = 2
    /\ EmbeddedIds(Unwrap(bytes(need_call.value)), need_call.layout)
          \subseteq need_call.delayed_write_set_ids
    /\ need_call.result # None
    /\ need_call.result[1].tag = "Ok"

(***************************************************************************)
(* Properties of the identifier generator (SpecI, SpecR).                  *)
(***************************************************************************)
RangesOverlap ==
    /\ seq_count > 0 /\ par_count > 0
    /\ seq_start < par_start + par_count
    /\ par_start < seq_start + seq_count

\* C8 (as stated): the identifiers of a sequential attempt and of a parallel
\* attempt never overlap, for any number of identifiers generated in each.
C8_RangesNeverOverlap == (seq_start # 0 /\ par_start # 0) => ~RangesOverlap

\* C8 (amended): they do not overlap as long as the sequential attempt has
\* generated at most 2,000,000 identifiers.
C8_RangesDisjointUpTo2M ==
    (seq_start # 0 /\ par_start # 0 /\ seq_count <= 2000000) => ~RangesOverlap

\* the closest start values, the sequential attempt at 2,000,000 identifiers
C8_Witness ==
    /\ seq_start = 999000000
    /\ par_start = 1001000000
    /\ seq_count = 2000000
    /\ par_count > 0

\* C9: every sequential start value lies in [1_000_000, 999_000_000], every
\* parallel one in [1_001_000_000, 1_999_000_000], so every sequential start
\* value is smaller than every parallel one.
C9_StartValuesOrdered ==
    /\ seq_start # 0 => (1000000 <= seq_start /\ seq_start <= 999000000)
    /\ par_start # 0 => (1001000000 <= par_start /\ par_start <= 1999000000)
    /\ (seq_start # 0 /\ par_start # 0) => seq_start < par_start

\* the largest sequential and the smallest parallel start value
C9_Witness == seq_start = 999000000 /\ par_start = 1001000000 /\ seq_count = 0

\* a start value the function may return without wrapping the u32 product
IsStartValue(start) ==
    /\ start % 1000000 = 0
    /\ 1000000 <= start
    /\ start <= 1999000000

\* C28: gen_id_start_value never returns 0 and never overflows u32: in both
\* modes the result is a multiple of 1_000_000 from 1_000_000 to 1_999_000_000
\* (below 2^31, so below 2^32), the exact product of the draw and 1_000_000.
C28_StartValueInU32 ==
    /\ seq_start # 0 => (IsStartValue(seq_start)
                            /\ (seq_start \div 1000000) \in RngDraws(TRUE))
    /\ par_start # 0 => (IsStartValue(par_start)
                            /\ (par_start \div 1000000) \in RngDraws(FALSE))
    /\ (seq_start = 0 /\ par_start = 0) =>
          \A sequential \in BOOLEAN :
              \A rnd \in RngDraws(sequential) :
                  /\ gen_id_start_value(sequential, rnd) # 0
                  /\ IsStartValue(gen_id_start_value(sequential, rnd))
                  /\ gen_id_start_value(sequential, rnd) \div 1000000 = rnd

\* the smallest and the largest start value
C28_Witness == seq_start = 1000000 /\ par_start = 1999000000 /\ par_count = 0

=============================================================================
